---- MODULE Spec2Model ----
(***************************************************************************)
(* A model of the scripted layer runtime of apoptosis:                     *)
(*   - the layer thread and its dispatch channel (service/layer.rs),       *)
(*   - the interpreter host (service/lua.rs, service/lua/vm.rs).           *)
(* The two machines are checked under separate specifications.             *)
(***************************************************************************)
EXTENDS Integers, Sequences, FiniteSets, TLC

(***************************************************************************)
(* Bounds of the model.                                                    *)
(***************************************************************************)
NumMsgs == 2     \* messages submitted to one layer
NumCalls == 2    \* script invocations made on one VM
NumPaths == 1    \* asset paths known to the virtual filesystem
MaxTime == 4     \* the wall clock stops advancing here
MaxLimit == 1    \* largest time_limit a VM is configured with
MaxGive == 1     \* largest give_time a VM is configured with
MaxOnBroken == 2 \* on_broken invocations after which mark_broken is no longer called
NumSessions == 2 \* sessions created in api_sessions
MaxClock == 2    \* the database clock (NOW()) stops advancing here
NumEntities == 1 \* entity ids that receive votes
NumUsers == 2    \* users that vote
MaxPerUser == 2  \* largest vote_info.per_user
MaxGiveVotes == 2 \* give_votes calls that are made
MaxVoid == 1     \* votes that are voided

Msgs == 1..NumMsgs
Calls == 1..NumCalls
Paths == 1..NumPaths

NumTx == 2       \* give_votes calls in flight at the same time
MaxBegun == 3    \* give_votes calls begun in all
MaxSegs == 2     \* path segments of an entry name
MaxEntries == 2  \* entries of a TarArchive
MaxData == 2     \* bytes of an entry

(***************************************************************************)
(* State of one LayerThread.                                               *)
(***************************************************************************)
VARIABLES
    pc,            \* position of LayerThread::thread: "new", "select", "exited"
    inbound,       \* the unbounded mpsc queue (tx -> rx), oldest first
    cancelled,     \* the CancellationToken
    caller,        \* per message: the state of the LayerThread::dispatch call
    slot,          \* per message: the state of its oneshot reply channel
    fiber,         \* per message: the state of its spawn_local task
    layerAlive,    \* the Rc<L> (and the interpreter it owns) is alive
    cleanupCalls,  \* number of calls of layer.cleanup()
    submitted,     \* history: messages in the order tx.send accepted them
    started,       \* history: messages in the order spawn_local was called
    replied        \* history: messages in the order a reply value was sent

layerVars == <<pc, inbound, cancelled, caller, slot, fiber, layerAlive,
               cleanupCalls, submitted, started, replied>>

(***************************************************************************)
(* State of one interpreter host (Vm) and of the invocations made on it.   *)
(***************************************************************************)
VARIABLES
    vm,            \* the fields of Vm
    call,          \* per invocation: operation, phase and result
    now            \* Instant::now()

vmVars == <<vm, call, now>>

(***************************************************************************)
(* State of the database tables the session manager and the entity manager *)
(* work on, and of the one request in flight on each.                      *)
(***************************************************************************)
VARIABLES
    sessions,      \* table api_sessions: a set of rows
    sclock,        \* NOW() of the database, for api_sessions.expiry
    issued,        \* number of sessions created so far
    sreq,          \* the SessionManager call in flight and its result
    votes,         \* table entity_votes: a set of rows
    approx,        \* table entity_approx_votes, per entity id
    vnow,          \* index of the current instant in Instants
    gives,         \* the number of give_votes calls and the last one's outcome
    vreq           \* the EntityManager call in flight and its result

sessVars == <<sessions, sclock, issued, sreq>>
voteVars == <<votes, approx, vnow, gives, vreq>>
dbVars == <<sessVars, voteVars>>

(****************************************************************************)
(* The action executor of service/discord: the method call in flight, the    *)
(* inputs it met and the steps it took.                                     *)
(****************************************************************************)
VARIABLES
    dcall          \* the DiscordActionExecutor method called, its inputs and result

discVars == <<dcall>>

(****************************************************************************)
(* The TarArchive userdata of service/luacore/datamgmt.rs, the blob its     *)
(* toblob made and the archive read back from that blob.                    *)
(****************************************************************************)
VARIABLES
    tarArchive,    \* the TarArchive a script holds: taken by toblob or not, and its entries
    tarBlob,       \* the Blob of the last toblob and the entries it was made of
    tarBack        \* the TarArchive read from tarBlob

tarVars == <<tarArchive, tarBlob, tarBack>>

(***************************************************************************)
(* The proxied global table of service/lua.rs and the built-in globals.    *)
(***************************************************************************)
VARIABLES
    global_tab,    \* the raw entries of the proxied global table
    lua_globals,   \* lua.globals(): the built-in globals
    gwritten,      \* per key, the value last written through the proxy
    gread          \* the last read through the proxy: key, value, and what was written then

globVars == <<global_tab, lua_globals, gwritten, gread>>

(***************************************************************************)
(* give_votes calls that run at the same time, each in its own database    *)
(* transaction over the tables votes and approx.                           *)
(***************************************************************************)
VARIABLES
    tx,            \* per concurrent caller, the give_votes call it is in and how far it got
    begun          \* the number of give_votes calls begun so far

txVars == <<tx, begun>>

extVars == <<discVars, tarVars, globVars, txVars>>

vars == <<layerVars, vmVars, dbVars, extVars>>

DispatchResults == {"ok", "err"}

IsPrefix(s, t) == Len(s) <= Len(t) /\ \A i \in 1..Len(s) : s[i] = t[i]

Range(s) == {s[i] : i \in 1..Len(s)}


\* No give_votes call yet.
NoGive == [n |-> 0, out |-> "none", e |-> 0, u |-> 0, upvote |-> FALSE,
           per_user |-> 0]

\* No EntityManager read in flight.
NoArgs == [e |-> 0, u |-> 0, only_valid |-> FALSE, lo |-> <<>>,
           multiple_votes |-> FALSE, vote_time |-> 0]
NoVal == [has_voted |-> FALSE, wait |-> <<>>, rows |-> <<>>, count |-> 0]
NoVReq == [op |-> "none", pc |-> "idle", args |-> NoArgs, out |-> "none",
           val |-> NoVal]

\* What a method of the action executor meets when nothing is asked of it.
NoInput == [parse_ok |-> TRUE, action_ok |-> TRUE, user |-> TRUE, self |-> FALSE,
            payload_ok |-> TRUE, perm_ok |-> TRUE, roles_ok |-> TRUE,
            hier |-> "bot", reason |-> 1, has_channel |-> FALSE, chan_ok |-> TRUE,
            webhook |-> "g1", guild |-> "g1", files_ok |-> TRUE, prov_ok |-> TRUE]

\* No method of the action executor in flight.
\* Lua tables over the keys of the model; Nil is an absent entry.
Nil == "nil"
Keys == {"_G", "require", "print", "x"}
Written == {Nil, "v1", "v2"}

\* lua.globals() once the standard library is loaded
builtin_globals ==
    [k \in Keys |-> CASE k = "_G" -> "globals" [] k = "print" -> "print_fn" [] OTHER -> Nil]

\* Table::set on a table whose metatable has no __newindex: a raw set
tab_set(tab, k, v) == [tab EXCEPT ![k] = v]

\* proxy_global: a new table with _G set to itself (its metatable indexes lua.globals())
proxy_global == tab_set([k \in Keys |-> Nil], "_G", "global_tab")

\* Vm::new: the proxied table with require set on it
vm_global_table == tab_set(proxy_global, "require", "require_fn")

\* the keys the host wrote through the proxy while building it
host_written ==
    [k \in Keys |-> IF vm_global_table[k] # Nil THEN vm_global_table[k] ELSE "unwritten"]

NoRead == [key |-> "none", value |-> Nil, written |-> "unwritten"]

NoTx == [pc |-> "idle", out |-> "none", e |-> 0, u |-> 0, upvote |-> FALSE, per_user |-> 0,
         i |-> 0, row |-> [present |-> FALSE, n |-> 0], conc |-> FALSE]

NoEntries == [n \in {} |-> <<>>]
NoArchive == [taken |-> FALSE, entries |-> NoEntries]
NoBlob == [set |-> FALSE, of |-> NoEntries, ok |-> FALSE, data |-> <<>>]
NoBack == [set |-> FALSE, of |-> NoEntries, entries |-> NoEntries]

NoDCall == [method |-> "none", in |-> NoInput, out |-> "none", trace |-> <<>>]

(***************************************************************************)
(* Channel primitives as the loop and the fibers use them.                 *)
(***************************************************************************)

\* rx.recv() on the mpsc queue: the oldest message.  (Mutant: the newest.)
recv_newest(q) == q[Len(q)]
recv(q) == Head(q)

\* The queue after the received message has been taken out of it.
recv_rest(q, m) == SelectSeq(q, LAMBDA x : x # m)

\* The reply channel after its OneshotSender is dropped without a send: a
\* receiver still waiting observes a RecvError.  (Mutant: the sender leaks.)
drop_sender_leak(s) == s
drop_sender(s) == IF s = "open" THEN "tx_dropped" ELSE s

\* tx.send(result) on the oneshot channel: delivers iff the receiver lives.
send_ok(s) == s = "open"
send(s, r) == IF send_ok(s) THEN (IF r = "ok" THEN "value_ok" ELSE "value_err") ELSE s

\* `let _ = tx.send(result);`: the fiber ends normally whether or not the
\* send succeeded.  (Mutant: the send result is unwrapped.)
fiber_after_send_unwrap(sent) == IF sent THEN "finished" ELSE "panicked"
fiber_after_send(sent) == "finished"

\* select! without `biased`: a branch may be taken whenever its future is
\* ready, whatever the state of the other branch.  (Mutants: the receive
\* branch only while no fiber is in flight; the select biased to cancellation.)
recv_ready_serial == inbound # <<>> /\ \A m \in Msgs : fiber[m] \notin {"spawned", "running"}
recv_ready == inbound # <<>>

(***************************************************************************)
(* LayerThread::thread                                                     *)
(***************************************************************************)

LayerInit ==
    /\ pc = "new"
    /\ inbound = <<>>
    /\ cancelled = FALSE
    /\ caller = [m \in Msgs |-> "idle"]
    /\ slot = [m \in Msgs |-> "none"]
    /\ fiber = [m \in Msgs |-> "none"]
    /\ layerAlive = FALSE
    /\ cleanupCalls = 0
    /\ submitted = <<>>
    /\ started = <<>>
    /\ replied = <<>>
    /\ tx = [t \in 1..NumTx |-> NoTx]
    /\ begun = 0
    /\ global_tab = vm_global_table
    /\ lua_globals = builtin_globals
    /\ gwritten = host_written
    /\ gread = NoRead
    /\ tarArchive = NoArchive
    /\ tarBlob = NoBlob
    /\ tarBack = NoBack
    /\ dcall = NoDCall
    /\ now = 0
    /\ vm = [lua |-> "alive", broken |-> FALSE, on_broken |-> FALSE,
             on_broken_calls |-> 0, last_execution_time |-> 0 - 1,
             time_limit |-> 0 - 1, execution_stop_time |-> 0 - 1,
             give_time |-> 0, function_cache |-> {}, limit_changed |-> FALSE]
    /\ call = [c \in 1..NumCalls |->
                 [op |-> "none", phase |-> "idle", path |-> 0, out |-> "none",
                  run_start |-> 0 - 1]]
    /\ sessions = {}
    /\ sclock = 0
    /\ issued = 0
    /\ sreq = [op |-> "none", pc |-> "idle", token |-> 0, flags |-> 0,
               kind |-> "none", rows |-> {}]
    /\ votes = {}
    /\ approx = [e \in 1..NumEntities |-> [present |-> FALSE, n |-> 0]]
    /\ vnow = 1
    /\ gives = NoGive
    /\ vreq = NoVReq

\* The thread ends: the async block's locals (rx, and with it every queued
\* message and its reply sender) and then the runtime (every task not yet
\* finished, with its reply sender and its Rc<L>) are dropped.
thread_exit ==
    /\ pc' = "exited"
    /\ inbound' = <<>>
    /\ fiber' = [m \in Msgs |->
                    IF fiber[m] \in {"spawned", "running"} THEN "aborted" ELSE fiber[m]]
    /\ slot' = [m \in Msgs |->
                    IF m \in Range(inbound) \/ fiber[m] \in {"spawned", "running"}
                    THEN drop_sender(slot[m]) ELSE slot[m]]
    /\ layerAlive' = FALSE

\* L::new(opts).await succeeded: enter the receive loop.
thread_new ==
    /\ pc = "new"
    /\ pc' = "select"
    /\ layerAlive' = TRUE
    /\ UNCHANGED <<extVars, dbVars, vmVars, inbound, cancelled, caller, slot, fiber, cleanupCalls,
                   submitted, started, replied>>

\* L::new(opts).await failed: .expect("Failed to create layer") panics.
thread_new_failed ==
    /\ pc = "new"
    /\ thread_exit
    /\ UNCHANGED <<extVars, dbVars, vmVars, cancelled, caller, cleanupCalls, submitted, started, replied>>

\* select! branch `Some(msg) = rx.recv()`: spawn_local a fiber for msg.
thread_recv ==
    /\ pc = "select"
    /\ recv_ready
    /\ LET m == recv(inbound) IN
        /\ inbound' = recv_rest(inbound, m)
        /\ fiber' = [fiber EXCEPT ![m] = "spawned"]
        /\ started' = Append(started, m)
    /\ UNCHANGED <<extVars, dbVars, vmVars, pc, cancelled, caller, slot, layerAlive, cleanupCalls,
                   submitted, replied>>

\* select! branch `_ = cancellation_token.cancelled()`: layer.cleanup()
\* (the default body returns Ok(()) at once, no layer overrides it), return.
thread_cancelled ==
    /\ pc = "select"
    /\ cancelled
    /\ cleanupCalls' = cleanupCalls + 1
    /\ thread_exit
    /\ UNCHANGED <<extVars, dbVars, vmVars, cancelled, caller, submitted, started, replied>>

\* First poll of a spawned fiber: it calls layer_ref.dispatch(msg), which
\* suspends at its first await.  Fibers are polled only while the loop task
\* is parked in select!.
fiber_poll(m) ==
    /\ pc = "select"
    /\ fiber[m] = "spawned"
    /\ fiber' = [fiber EXCEPT ![m] = "running"]
    /\ UNCHANGED <<extVars, dbVars, vmVars, pc, inbound, cancelled, caller, slot, layerAlive, cleanupCalls,
                   submitted, started, replied>>

\* layer_ref.dispatch(msg) completes with r; `let _ = tx.send(result);`.
fiber_finish(m, r) ==
    /\ pc = "select"
    /\ fiber[m] = "running"
    /\ fiber' = [fiber EXCEPT ![m] = fiber_after_send(send_ok(slot[m]))]
    /\ slot' = [slot EXCEPT ![m] = send(slot[m], r)]
    /\ replied' = IF send_ok(slot[m]) THEN Append(replied, m) ELSE replied
    /\ UNCHANGED <<extVars, dbVars, vmVars, pc, inbound, cancelled, caller, layerAlive, cleanupCalls,
                   submitted, started>>

(***************************************************************************)
(* LayerThread::dispatch and LayerThread::cancel, on the callers' threads  *)
(***************************************************************************)

\* self.tx.send((msg, tx)): fails once rx is dropped, else enqueues.
dispatch_send(m) ==
    /\ caller[m] = "idle"
    /\ IF pc = "exited"
       THEN /\ caller' = [caller EXCEPT ![m] = "err"]
            /\ UNCHANGED <<extVars, dbVars, vmVars, inbound, slot, submitted>>
       ELSE /\ caller' = [caller EXCEPT ![m] = "waiting"]
            /\ inbound' = Append(inbound, m)
            /\ slot' = [slot EXCEPT ![m] = "open"]
            /\ submitted' = Append(submitted, m)
    /\ UNCHANGED <<extVars, dbVars, vmVars, pc, cancelled, fiber, layerAlive, cleanupCalls, started, replied>>

\* `match rx.await`: Ok(result) => result, Err(e) => Err(..).
dispatch_await(m) ==
    /\ caller[m] = "waiting"
    /\ slot[m] \in {"value_ok", "value_err", "tx_dropped"}
    /\ caller' = [caller EXCEPT ![m] = IF slot[m] = "value_ok" THEN "ok" ELSE "err"]
    /\ UNCHANGED <<extVars, dbVars, vmVars, pc, inbound, cancelled, slot, fiber, layerAlive, cleanupCalls,
                   submitted, started, replied>>

\* The caller's future is dropped while it awaits rx: the reply slot goes.
dispatch_dropped(m) ==
    /\ caller[m] = "waiting"
    /\ slot[m] = "open"
    /\ caller' = [caller EXCEPT ![m] = "gone"]
    /\ slot' = [slot EXCEPT ![m] = "rx_dropped"]
    /\ UNCHANGED <<extVars, dbVars, vmVars, pc, inbound, cancelled, fiber, layerAlive, cleanupCalls,
                   submitted, started, replied>>

\* self.cancellation_token.cancel()
cancel ==
    /\ ~cancelled
    /\ cancelled' = TRUE
    /\ UNCHANGED <<extVars, dbVars, vmVars, pc, inbound, caller, slot, fiber, layerAlive, cleanupCalls,
                   submitted, started, replied>>

(***************************************************************************)
(* The interpreter host: Vm of service/lua.rs and of service/lua/vm.rs.    *)
(* Instants and durations are integers; None is the absent Option.         *)
(***************************************************************************)

None == 0 - 1

Limits == {None} \cup (1..MaxLimit)

\* What a call into the Luau library can return.
LibResults == {"Ok", "MemoryError", "RuntimeError"}

\* What a Vm operation can end with.  "Panic" is an unwinding panic of the
\* calling task; every other value but "Ok" is an Err(..) returned.
ErrResults == {"MemoryError", "RuntimeError", "TimeLimit", "NotValid", "NotFound"}

\* Where a run / call_in_scheduler prefix can fail, and with which error.
FailErr(f) == IF f \in {"load_mem", "thread_mem", "args_mem"} THEN "MemoryError"
              ELSE "RuntimeError"
ThreadFails == {"thread_mem", "thread_err"}
ArgsFails == {"args_mem", "args_err"}
LoadFails == {"compile", "load_mem", "load_err"}
RunFails == {"none", "get_file"} \cup LoadFails \cup ThreadFails \cup ArgsFails
SchedFails == {"none"} \cup ThreadFails \cup ArgsFails

\* Vm::new(opts, vfs) at instant t.
new(limit, give, t) ==
    [ lua |-> "alive",
      broken |-> FALSE,
      on_broken |-> FALSE,
      on_broken_calls |-> 0,
      last_execution_time |-> None,
      time_limit |-> limit,
      execution_stop_time |-> IF limit = None THEN None ELSE t + limit,
      give_time |-> give,
      function_cache |-> {},
      compiles |-> [p \in Paths |-> 0],
      limit_changed |-> FALSE ]

\* Vm::update_last_execution_time(time).  (Mutant: the stop instant is left
\* where the previous invocation put it.)
update_last_execution_time_only(v, t) ==
    [v EXCEPT !.last_execution_time = t]
update_last_execution_time(v, t) ==
    [v EXCEPT !.last_execution_time = t,
              !.execution_stop_time =
                  IF v.time_limit = None THEN None ELSE t + v.time_limit]

\* SchedulerHook::on_resume at instant t.  (Mutant: every resume adds
\* give_time to the stop instant.)
on_resume_adds(v, t) ==
    IF v.execution_stop_time = None THEN v
    ELSE [v EXCEPT !.execution_stop_time = @ + v.give_time + 1]
\* (Mutant: every resume sets the stop instant to t + give_time.)
on_resume_sets(v, t) ==
    IF v.execution_stop_time = None THEN v
    ELSE [v EXCEPT !.execution_stop_time = t + v.give_time]
on_resume(v, t) ==
    IF v.execution_stop_time = None THEN v
    ELSE IF v.execution_stop_time < t + v.give_time
         THEN [v EXCEPT !.execution_stop_time = t + v.give_time]
         ELSE v

\* The closure given to lua.set_interrupt, consulted at instant t.
\* (Mutants: the stop instant is checked one tick late; the stop instant is
\* checked before the broken flag.)
interrupt_late(v, t) ==
    IF v.broken THEN "Yield"
    ELSE IF v.execution_stop_time # None /\ t > v.execution_stop_time + 1 THEN "Err"
    ELSE "Continue"
interrupt_time_first(v, t) ==
    IF v.execution_stop_time # None /\ t > v.execution_stop_time THEN "Err"
    ELSE IF v.broken THEN "Yield"
    ELSE "Continue"
interrupt(v, t) ==
    IF v.broken THEN "Yield"
    ELSE IF v.execution_stop_time # None /\ t > v.execution_stop_time THEN "Err"
    ELSE "Continue"

\* Vm::close().  `held` tells that the caller still holds a Ref of self.lua:
\* then self.lua.borrow_mut() panics, after broken was set.  (Mutant: close
\* of a closed Vm is an error and reports it through on_broken.)
close_strict(v, held) ==
    IF held THEN [vm |-> [v EXCEPT !.broken = TRUE], out |-> "Panic"]
    ELSE IF v.lua = "released"
         THEN [vm |-> [v EXCEPT !.broken = TRUE, !.on_broken_calls = @ + 1],
               out |-> "RuntimeError"]
         ELSE [vm |-> [v EXCEPT !.broken = TRUE, !.lua = "released"], out |-> "Ok"]
close(v, held) ==
    IF held THEN [vm |-> [v EXCEPT !.broken = TRUE], out |-> "Panic"]
    ELSE IF v.lua = "released"
         THEN [vm |-> [v EXCEPT !.broken = TRUE], out |-> "Ok"]
         ELSE [vm |-> [v EXCEPT !.broken = TRUE, !.lua = "released"], out |-> "Ok"]

\* Vm::mark_broken(broken)
mark_broken(v, b, held) ==
    LET c == close(v, held) IN
    IF c.out = "Panic" THEN c
    ELSE [vm |-> IF b /\ c.vm.on_broken
                 THEN [c.vm EXCEPT !.on_broken_calls = @ + 1]
                 ELSE c.vm,
          out |-> c.out]

\* Vm::handle_error(resp), and the same match written out in Vm::run: a
\* MemoryError marks the Vm broken, then the error is returned as it came.
handle_error(v, resp, held) ==
    IF resp = "MemoryError"
    THEN LET m == mark_broken(v, TRUE, held) IN
         [vm |-> m.vm, out |-> IF m.out = "Ok" THEN resp ELSE m.out]
    ELSE [vm |-> v, out |-> resp]

\* Vm::run: the function for path p, from function_cache or else compiled,
\* loaded and inserted; `compiles` counts the functions made for each path.
\* (Mutant: the cache is not consulted.)
load_function_uncached(v, p) ==
    [v EXCEPT !.function_cache = @ \cup {p}, !.compiles[p] = @ + 1]
load_function(v, p) ==
    IF p \in v.function_cache THEN v
    ELSE [v EXCEPT !.function_cache = @ \cup {p}, !.compiles[p] = @ + 1]

\* An invocation place: free ("idle"), or holding an invocation that waits
\* in the scheduler ("queued"), executes script code ("running"), has its
\* fiber's outcome ready ("returned"), or has returned `out` to a caller
\* that has not yet taken it ("done").
NoCall == [op |-> "none", phase |-> "idle", path |-> 0, out |-> "none",
           run_start |-> None]

VmInit ==
    /\ now = 0
    /\ vm \in {new(l, g, 0) : l \in Limits, g \in 0..MaxGive}
    /\ call = [c \in Calls |-> NoCall]
    /\ pc = "new"
    /\ inbound = <<>>
    /\ cancelled = FALSE
    /\ caller = [m \in Msgs |-> "idle"]
    /\ slot = [m \in Msgs |-> "none"]
    /\ fiber = [m \in Msgs |-> "none"]
    /\ layerAlive = FALSE
    /\ cleanupCalls = 0
    /\ submitted = <<>>
    /\ started = <<>>
    /\ replied = <<>>
    /\ tx = [t \in 1..NumTx |-> NoTx]
    /\ begun = 0
    /\ global_tab = vm_global_table
    /\ lua_globals = builtin_globals
    /\ gwritten = host_written
    /\ gread = NoRead
    /\ tarArchive = NoArchive
    /\ tarBlob = NoBlob
    /\ tarBack = NoBack
    /\ dcall = NoDCall
    /\ sessions = {}
    /\ sclock = 0
    /\ issued = 0
    /\ sreq = [op |-> "none", pc |-> "idle", token |-> 0, flags |-> 0,
               kind |-> "none", rows |-> {}]
    /\ votes = {}
    /\ approx = [e \in 1..NumEntities |-> [present |-> FALSE, n |-> 0]]
    /\ vnow = 1
    /\ gives = NoGive
    /\ vreq = NoVReq

\* One thread owns the Vm: while a script executes nothing else runs on it.
ThreadFree == \A c \in Calls : call[c].phase # "running"

\* A new invocation takes the first free place.
NextCall(c) == call[c].phase = "idle" /\ \A d \in Calls : d < c => call[d].phase # "idle"

\* The operation in place c returns out to its caller.
Done(c, out) ==
    [call EXCEPT ![c] = [NoCall EXCEPT !.phase = "done", !.out = out]]

\* The invocation op in place c has started and waits or runs.
InFlight(c, op, p, phase) ==
    [call EXCEPT ![c] = [NoCall EXCEPT !.op = op, !.path = p, !.phase = phase,
                                       !.run_start = IF phase = "running"
                                                     THEN now ELSE None]]

\* The fiber of c leaves the running phase.
Suspend(c, phase, o) ==
    [call EXCEPT ![c].phase = phase, ![c].out = o, ![c].run_start = None]

(***************************************************************************)
(* Operations of Vm that run no script.                                    *)
(***************************************************************************)

vm_close ==
    /\ ThreadFree
    /\ vm' = close(vm, FALSE).vm
    /\ UNCHANGED <<extVars, dbVars, layerVars, call, now>>

vm_mark_broken(b) ==
    /\ ThreadFree
    /\ vm.on_broken_calls < MaxOnBroken
    /\ vm' = mark_broken(vm, b, FALSE).vm
    /\ UNCHANGED <<extVars, dbVars, layerVars, call, now>>

vm_set_on_broken ==
    /\ ThreadFree
    /\ vm' = [vm EXCEPT !.on_broken = TRUE]
    /\ UNCHANGED <<extVars, dbVars, layerVars, call, now>>

vm_set_time_limit(l) ==
    /\ ThreadFree
    /\ vm' = [vm EXCEPT !.time_limit = l,
                        !.limit_changed = @ \/ l # vm.time_limit]
    /\ UNCHANGED <<extVars, dbVars, layerVars, call, now>>

\* Vm::with_lua(func) and Vm::from_value: func(lua) returns resp.  The value
\* goes back to the caller; only the effect on the Vm is kept.
vm_with_lua(resp) ==
    /\ ThreadFree
    /\ vm' = IF vm.lua = "released" THEN vm ELSE handle_error(vm, resp, TRUE).vm
    /\ UNCHANGED <<extVars, dbVars, layerVars, call, now>>

\* Vm::eval_chunk(code, name, env): chunk.into_function() returns resp.
vm_eval_chunk(c, resp) ==
    /\ ThreadFree
    /\ NextCall(c)
    /\ LET v1 == update_last_execution_time(vm, now)
           r == IF v1.lua = "released"
                THEN [vm |-> v1, out |-> "NotValid"]
                ELSE handle_error(v1, resp, TRUE) IN
        /\ vm' = r.vm
        /\ call' = Done(c, r.out)
    /\ UNCHANGED <<extVars, dbVars, layerVars, now>>

(***************************************************************************)
(* Script invocations.                                                     *)
(***************************************************************************)

\* Vm::eval_script(path): proxy_require.call(path) without a look at
\* self.lua.  On a released state the call cannot run the script and ends
\* as the library decides (gone): in a panic or in an error.
vm_eval_script(c, p, gone) ==
    /\ ThreadFree
    /\ NextCall(c)
    /\ vm' = update_last_execution_time(vm, now)
    /\ call' = IF vm.lua = "alive"
               THEN InFlight(c, "eval_script", 0, "running")
               ELSE Done(c, gone)
    /\ UNCHANGED <<extVars, dbVars, layerVars, now>>

\* Vm::call_in_scheduler(func, args) up to spawn_thread_and_wait(..).await
vm_call_in_scheduler(c, f) ==
    /\ ThreadFree
    /\ NextCall(c)
    /\ LET v1 == update_last_execution_time(vm, now)
           h == handle_error(v1, FailErr(f), TRUE)
           end(v, out) == vm' = v /\ call' = Done(c, out)
       IN
        IF v1.lua = "released" THEN end(v1, "NotValid")
        ELSE IF f # "none" THEN end(h.vm, h.out)
        ELSE /\ vm' = update_last_execution_time(v1, now)
             /\ call' = InFlight(c, "call_in_scheduler", 0, "queued")
    /\ UNCHANGED <<extVars, dbVars, layerVars, now>>

\* Vm::run(path, args) up to spawn_thread_and_wait(..).await
vm_run(c, p, f) ==
    /\ ThreadFree
    /\ NextCall(c)
    /\ (f \in LoadFails => p \notin vm.function_cache)
    /\ LET v1 == update_last_execution_time(vm, now)
           v2 == load_function(v1, p)
           v3 == update_last_execution_time(v2, now)
           end(v, out) == vm' = v /\ call' = Done(c, out)
       IN
        IF f = "get_file" THEN end(vm, "NotFound")
        ELSE IF v1.lua = "released" THEN end(v1, "NotValid")
        ELSE IF f = "compile" THEN end(v1, "RuntimeError")
        ELSE IF f \in LoadFails
        THEN LET h == handle_error(v1, FailErr(f), TRUE) IN end(h.vm, h.out)
        ELSE IF f \in ThreadFails
        THEN LET h == handle_error(v2, FailErr(f), TRUE) IN end(h.vm, h.out)
        ELSE IF f \in ArgsFails
        THEN LET h == handle_error(v3, FailErr(f), TRUE) IN end(h.vm, h.out)
        ELSE /\ vm' = v3
             /\ call' = InFlight(c, "run", p, "queued")
    /\ UNCHANGED <<extVars, dbVars, layerVars, now>>

\* The scheduler resumes the fiber of c; the resume hook runs first.
sched_resume(c) ==
    /\ ThreadFree
    /\ call[c].phase = "queued"
    /\ vm.lua = "alive"
    /\ vm' = on_resume(vm, now)
    /\ call' = [call EXCEPT ![c].phase = "running", ![c].run_start = now]
    /\ UNCHANGED <<extVars, dbVars, layerVars, now>>

\* The interpreter is gone: the manager gives up the fiber (None).
sched_aborted(c) ==
    /\ ThreadFree
    /\ call[c].phase = "queued"
    /\ vm.lua = "released"
    /\ call' = Suspend(c, "returned", "None")
    /\ UNCHANGED <<extVars, dbVars, layerVars, vm, now>>

\* The running script reaches an interrupt point and the predicate does
\* not say Continue.  A Yield outside a fiber is an error of the call.
script_interrupt(c) ==
    /\ call[c].phase = "running"
    /\ interrupt(vm, now) # "Continue"
    /\ LET r == interrupt(vm, now) IN
        call' = IF call[c].op = "eval_script"
                THEN Done(c, IF r = "Err" THEN "TimeLimit" ELSE "RuntimeError")
                ELSE IF r = "Err" THEN Suspend(c, "returned", "TimeLimit")
                ELSE Suspend(c, "queued", "none")
    /\ UNCHANGED <<extVars, dbVars, layerVars, vm, now>>

\* The running fiber suspends itself (task.wait, a scheduler-async method).
script_yield(c) ==
    /\ call[c].phase = "running"
    /\ call[c].op # "eval_script"
    /\ call' = Suspend(c, "queued", "none")
    /\ UNCHANGED <<extVars, dbVars, layerVars, vm, now>>

\* The running script ends with o; "OuterMemoryError" is the Err of
\* spawn_thread_and_wait itself.
script_return(c, o) ==
    /\ call[c].phase = "running"
    /\ IF call[c].op = "eval_script"
       THEN /\ o \in LibResults
            /\ LET h == handle_error(vm, o, FALSE) IN
                vm' = h.vm /\ call' = Done(c, h.out)
       ELSE /\ vm' = vm
            /\ call' = Suspend(c, "returned", o)
    /\ UNCHANGED <<extVars, dbVars, layerVars, now>>

\* Vm::run after spawn_thread_and_wait(..).await
run_finish(c) ==
    /\ ThreadFree
    /\ call[c].phase = "returned"
    /\ call[c].op = "run"
    /\ LET o == call[c].out
           h == handle_error(vm, o, FALSE)
           end(v, out) == vm' = v /\ call' = Done(c, out)
       IN
        IF o = "OuterMemoryError" THEN end(vm, "MemoryError")
        ELSE IF vm.lua = "released" THEN end(vm, "NotValid")
        ELSE IF o \in {"None", "Ok"} THEN end(vm, "Ok")
        ELSE end(h.vm, h.out)
    /\ UNCHANGED <<extVars, dbVars, layerVars, now>>

\* Vm::call_in_scheduler after spawn_thread_and_wait(..).await
call_in_scheduler_finish(c) ==
    /\ ThreadFree
    /\ call[c].phase = "returned"
    /\ call[c].op = "call_in_scheduler"
    /\ LET o == call[c].out
           outer == handle_error(vm, "MemoryError", FALSE)
           inner == handle_error(vm, o, TRUE)
           end(v, out) == vm' = v /\ call' = Done(c, out)
       IN
        IF o = "OuterMemoryError" THEN end(outer.vm, outer.out)
        ELSE IF vm.lua = "released" THEN end(vm, "NotValid")
        ELSE IF o \in {"None", "Ok"} THEN end(vm, "Ok")
        ELSE end(inner.vm, inner.out)
    /\ UNCHANGED <<extVars, dbVars, layerVars, now>>

\* The caller takes the result; the place is free again.
call_return(c) ==
    /\ call[c].phase = "done"
    /\ call' = [call EXCEPT ![c] = NoCall]
    /\ UNCHANGED <<extVars, dbVars, layerVars, vm, now>>

\* Wall-clock time passes.
tick ==
    /\ now < MaxTime
    /\ now' = now + 1
    /\ UNCHANGED <<extVars, dbVars, layerVars, vm, call>>

VmNext ==
    \/ vm_close
    \/ \E b \in BOOLEAN : vm_mark_broken(b)
    \/ vm_set_on_broken
    \/ \E l \in Limits : vm_set_time_limit(l)
    \/ \E r \in LibResults : vm_with_lua(r)
    \/ \E c \in Calls, r \in LibResults : vm_eval_chunk(c, r)
    \/ \E c \in Calls, p \in Paths, g \in {"Panic", "RuntimeError"} : vm_eval_script(c, p, g)
    \/ \E c \in Calls, f \in SchedFails : vm_call_in_scheduler(c, f)
    \/ \E c \in Calls, p \in Paths, f \in RunFails : vm_run(c, p, f)
    \/ \E c \in Calls : sched_resume(c)
    \/ \E c \in Calls : sched_aborted(c)
    \/ \E c \in Calls : script_interrupt(c)
    \/ \E c \in Calls : script_yield(c)
    \/ \E c \in Calls, o \in LibResults \cup {"OuterMemoryError"} : script_return(c, o)
    \/ \E c \in Calls : run_finish(c)
    \/ \E c \in Calls : call_in_scheduler_finish(c)
    \/ \E c \in Calls : call_return(c)
    \/ tick

(***************************************************************************)
(* Specifications.                                                         *)
(***************************************************************************)

LayerNext ==
    \/ thread_new
    \/ thread_new_failed
    \/ thread_recv
    \/ thread_cancelled
    \/ cancel
    \/ \E m \in Msgs : fiber_poll(m)
    \/ \E m \in Msgs, r \in DispatchResults : fiber_finish(m, r)
    \/ \E m \in Msgs : dispatch_send(m)
    \/ \E m \in Msgs : dispatch_await(m)
    \/ \E m \in Msgs : dispatch_dropped(m)

\* The layer thread alone; the Vm stays as constructed.
LayerSpec == LayerInit /\ [][LayerNext]_vars

\* One Vm alone; the layer thread stays as constructed.
VmSpec == VmInit /\ [][VmNext]_vars

\* The layer thread runs on its own OS thread and its cleanup returns at
\* once, so a thread step that stays possible is taken; a caller whose reply
\* channel has resolved is woken.
LayerFairSpec ==
    /\ LayerSpec
    /\ WF_vars(thread_new \/ thread_new_failed)
    /\ WF_vars(thread_cancelled)
    /\ \A m \in Msgs : WF_vars(dispatch_await(m))

(***************************************************************************)
(* The session manager: SessionManager of service/session.rs over the      *)
(* table api_sessions.  A row is [id, token, expiry, target_type,          *)
(* target_id]; the token of the i-th session created is i, token 0 is the  *)
(* token of no session.                                                    *)
(***************************************************************************)

BANNED == 64

Tokens == 0..NumSessions
TargetIds == 1..NumUsers
TargetTypes == {"dummy", "dodo", "ghost"}
FlagSets == {0, 2, BANNED, BANNED + 2}

\* EntityFlags::contains(flag), flag a single bit.
contains(flags, flag) == (flags \div flag) % 2 = 1

NoReq == [op |-> "none", pc |-> "idle", token |-> 0, flags |-> 0,
          kind |-> "none", rows |-> {}]

\* DELETE FROM api_sessions WHERE expiry < NOW()
delete_expired(rows, t) == {r \in rows : ~(r.expiry < t)}

\* SELECT .. FROM api_sessions WHERE token = $1 AND expiry >= NOW()
\* (Mutant: the expiry is not looked at.)
select_by_token_any(rows, tok, t) == {r \in rows : r.token = tok}
select_by_token(rows, tok, t) == {r \in rows : r.token = tok /\ r.expiry >= t}

\* SELECT .. FROM api_sessions WHERE target_type = $1 AND target_id = $2
select_by_target(rows, tt, id) ==
    {r \in rows : r.target_type = tt /\ r.target_id = id}

\* SharedLayerDb::entity_manager_for / EntityType::from_name: Some(..) or None
entity_manager_for(tt) == tt \in {"dummy", "dodo"}

\* SessionManager::get_permit_for after the session lookup: found is the
\* looked-up session (no row or one), flags what the entity answered.
\* (Mutant: the BANNED flag is not looked at.)
get_permit_no_ban(found, flags) ==
    IF found = {} THEN "InvalidToken"
    ELSE IF \E r \in found : ~entity_manager_for(r.target_type) THEN "EntityNotSupported"
    ELSE "Success"
get_permit(found, flags) ==
    IF found = {} THEN "InvalidToken"
    ELSE IF \E r \in found : ~entity_manager_for(r.target_type) THEN "EntityNotSupported"
    ELSE IF contains(flags, BANNED) THEN "ApiBanned"
    ELSE "Success"

SessInit ==
    /\ sessions = {}
    /\ sclock = 0
    /\ issued = 0
    /\ sreq = NoReq
    /\ votes = {}
    /\ approx = [e \in 1..NumEntities |-> [present |-> FALSE, n |-> 0]]
    /\ vnow = 1
    /\ gives = NoGive
    /\ vreq = NoVReq
    /\ pc = "new"
    /\ inbound = <<>>
    /\ cancelled = FALSE
    /\ caller = [m \in Msgs |-> "idle"]
    /\ slot = [m \in Msgs |-> "none"]
    /\ fiber = [m \in Msgs |-> "none"]
    /\ layerAlive = FALSE
    /\ cleanupCalls = 0
    /\ submitted = <<>>
    /\ started = <<>>
    /\ replied = <<>>
    /\ tx = [t \in 1..NumTx |-> NoTx]
    /\ begun = 0
    /\ global_tab = vm_global_table
    /\ lua_globals = builtin_globals
    /\ gwritten = host_written
    /\ gread = NoRead
    /\ tarArchive = NoArchive
    /\ tarBlob = NoBlob
    /\ tarBack = NoBack
    /\ dcall = NoDCall
    /\ now = 0
    /\ vm = new(None, 0, 0)
    /\ call = [c \in Calls |-> NoCall]

\* SessionManager::create_session: INSERT INTO api_sessions .. with a fresh
\* random token; create_api_session passes any expiry the caller gives.
create_session(tt, id, e) ==
    /\ issued < NumSessions
    /\ issued' = issued + 1
    /\ sessions' = sessions \cup
          {[id |-> issued + 1, token |-> issued + 1, expiry |-> e,
            target_type |-> tt, target_id |-> id]}
    /\ UNCHANGED <<extVars, layerVars, vmVars, voteVars, sclock, sreq>>

\* get_session_by_token, first statement (also the start of get_permit_for,
\* which calls it): the sweep of expired rows.  ok: the statement succeeded.
get_session_by_token_sweep(op, t, ok) ==
    /\ sreq.pc = "idle"
    /\ IF ok
       THEN /\ sessions' = delete_expired(sessions, sclock)
            /\ sreq' = [NoReq EXCEPT !.op = op, !.pc = "select", !.token = t]
       ELSE /\ sessions' = sessions
            /\ sreq' = [NoReq EXCEPT !.op = op, !.pc = "done", !.token = t,
                                     !.kind = "Err"]
    /\ UNCHANGED <<extVars, layerVars, vmVars, voteVars, sclock, issued>>

\* get_session_by_token, second statement: fetch_optional of the SELECT.
get_session_by_token_select(ok) ==
    /\ sreq.pc = "select"
    /\ LET found == select_by_token(sessions, sreq.token, sclock) IN
        sreq' = IF ~ok THEN [sreq EXCEPT !.pc = "done", !.kind = "Err"]
                ELSE IF sreq.op = "get_permit_for"
                THEN [sreq EXCEPT !.pc = "permit", !.rows = found]
                ELSE [sreq EXCEPT !.pc = "done", !.rows = found,
                                  !.kind = IF found = {} THEN "None" ELSE "Some"]
    /\ UNCHANGED <<extVars, layerVars, vmVars, voteVars, sessions, sclock, issued>>

\* get_permit_for after the lookup.  fl: the flags the entity answers with;
\* ok: manager.entity().flags(..) succeeded.
get_permit_for_decide(fl, ok) ==
    /\ sreq.pc = "permit"
    /\ LET k == get_permit(sreq.rows, fl) IN
        sreq' = IF k \in {"ApiBanned", "Success"} /\ ~ok
                THEN [sreq EXCEPT !.pc = "done", !.kind = "Err"]
                ELSE [sreq EXCEPT !.pc = "done", !.kind = k,
                                  !.flags = IF k \in {"ApiBanned", "Success"}
                                            THEN fl ELSE 0]
    /\ UNCHANGED <<extVars, layerVars, vmVars, voteVars, sessions, sclock, issued>>

\* SessionManager::get_sessions(target_type, target_id): one SELECT.
get_sessions(tt, id, ok) ==
    /\ sreq.pc = "idle"
    /\ sreq' = IF ok
               THEN [NoReq EXCEPT !.op = "get_sessions", !.pc = "done",
                                  !.kind = "List",
                                  !.rows = select_by_target(sessions, tt, id)]
               ELSE [NoReq EXCEPT !.op = "get_sessions", !.pc = "done",
                                  !.kind = "Err"]
    /\ UNCHANGED <<extVars, layerVars, vmVars, voteVars, sessions, sclock, issued>>

\* The caller takes the result.
sess_return ==
    /\ sreq.pc = "done"
    /\ sreq' = NoReq
    /\ UNCHANGED <<extVars, layerVars, vmVars, voteVars, sessions, sclock, issued>>

\* Time passes in the database.
sess_tick ==
    /\ sclock < MaxClock
    /\ sclock' = sclock + 1
    /\ UNCHANGED <<extVars, layerVars, vmVars, voteVars, sessions, issued, sreq>>

SessNext ==
    \/ \E tt \in TargetTypes, id \in TargetIds, e \in 0..(MaxClock + 1) :
          create_session(tt, id, e)
    \/ \E op \in {"get_session_by_token", "get_permit_for"}, t \in Tokens,
          ok \in BOOLEAN : get_session_by_token_sweep(op, t, ok)
    \/ \E ok \in BOOLEAN : get_session_by_token_select(ok)
    \/ \E fl \in FlagSets, ok \in BOOLEAN : get_permit_for_decide(fl, ok)
    \/ \E tt \in TargetTypes, id \in TargetIds, ok \in BOOLEAN : get_sessions(tt, id, ok)
    \/ sess_return
    \/ sess_tick

\* The session manager alone.
SessSpec == SessInit /\ [][SessNext]_vars

(***************************************************************************)
(* The entity manager: EntityManager of entity/manager.rs over the tables  *)
(* entity_votes and entity_approx_votes, for the one target type of the    *)
(* repository.  A vote is [itag, author, target, upvote, void, created_at, *)
(* vote_num]; itag, void and created_at are filled in by the database      *)
(* (a fresh identifier, false, the time of the transaction).               *)
(***************************************************************************)

Hour == 3600

\* The instants (in seconds) at which the clock is read.
Instants == <<0, 3600>>

Entities == 1..NumEntities
Users == 1..NumUsers
Itags == 1..(MaxGiveVotes * MaxPerUser)
VoteTimes == {1, 2}
PerUsers == 1..MaxPerUser
LimitOffsets == {<<>>, <<1, 0>>, <<1, 1>>}

\* The identifiers the database gives to the next k rows of entity_votes
\* (in any order).
fresh_itags(vs, k) == (Cardinality(vs) + 1)..(Cardinality(vs) + k)

\* INSERT INTO entity_votes (author, target_id, target_type, upvote, vote_num)
vote_row(tag, e, u, upvote, i, t) ==
    [itag |-> tag, author |-> u, target |-> e, upvote |-> upvote,
     void |-> FALSE, created_at |-> t, vote_num |-> i]

\* INSERT INTO entity_approx_votes .. ON CONFLICT (target_id, target_type)
\* DO UPDATE SET approximate_votes = approximate_votes + EXCLUDED.approximate_votes
\* (Mutant: DO UPDATE SET approximate_votes = EXCLUDED.approximate_votes.)
upsert_approx_overwrite(a, e, d) == [a EXCEPT ![e] = [present |-> TRUE, n |-> d]]
upsert_approx(a, e, d) ==
    [a EXCEPT ![e] = [present |-> TRUE,
                      n |-> IF a[e].present THEN a[e].n + d ELSE d]]

\* A sqlx transaction that is dropped without commit: what it wrote is gone.
\* (Mutant: the statements are run on the pool, without a transaction.)
rollback_none(before, written) == written
rollback(before, written) == before

\* entity_votes filtered by author, target_id (and target_type), and by
\* void = false when only_valid.
matching(vs, u, e, only_valid) ==
    {r \in vs : r.author = u /\ r.target = e /\ (only_valid => ~r.void)}

\* ORDER BY created_at DESC: every sequence of the rows the database may
\* answer with.
order_by_created_at_desc(S) ==
    {s \in [1..Cardinality(S) -> S] :
        /\ \A i, j \in 1..Cardinality(S) : i # j => s[i] # s[j]
        /\ \A i, j \in 1..Cardinality(S) :
              i < j => s[i].created_at >= s[j].created_at}

\* LIMIT limit OFFSET offset, when limit_offset is Some((limit, offset)).
limit_offset(s, lo) ==
    IF lo = <<>> THEN s
    ELSE LET last == IF lo[2] + lo[1] < Len(s) THEN lo[2] + lo[1] ELSE Len(s)
         IN  SubSeq(s, lo[2] + 1, last)

\* EntityManager::fetch_votes: the results the query may give.
fetch_votes(vs, u, e, only_valid, lo) ==
    {limit_offset(s, lo) : s \in order_by_created_at_desc(matching(vs, u, e, only_valid))}

\* The VoteWait of vote_check: chrono's num_hours, num_minutes, num_seconds
\* of (vote_time hours - (now - created_at)), which is not negative here.
vote_wait(created_at, vote_time, t) ==
    LET time_to_wait == vote_time * Hour - (t - created_at)
        hours == time_to_wait \div Hour
        minutes == (time_to_wait \div 60) - hours * 60
        seconds == time_to_wait - (hours * 3600 + minutes * 60)
    IN  <<hours, minutes, seconds>>

\* EntityManager::vote_check after get_full_vote_info and fetch_votes:
\* t1 and t2 are the two readings of Utc::now().
\* (Mutant: a vote exactly vote_time hours old still counts.)
vote_check_ge(valid_votes, multiple_votes, vote_time, t1, t2) ==
    IF multiple_votes
    THEN IF valid_votes # <<>> /\ valid_votes[1].created_at + vote_time * Hour >= t1
         THEN [has_voted |-> TRUE,
               wait |-> vote_wait(valid_votes[1].created_at, vote_time, t2)]
         ELSE [has_voted |-> FALSE, wait |-> <<>>]
    ELSE [has_voted |-> valid_votes # <<>>, wait |-> <<>>]
vote_check(valid_votes, multiple_votes, vote_time, t1, t2) ==
    IF multiple_votes
    THEN IF valid_votes # <<>> /\ valid_votes[1].created_at + vote_time * Hour > t1
         THEN [has_voted |-> TRUE,
               wait |-> vote_wait(valid_votes[1].created_at, vote_time, t2)]
         ELSE [has_voted |-> FALSE, wait |-> <<>>]
    ELSE [has_voted |-> valid_votes # <<>>, wait |-> <<>>]

\* SELECT COUNT(*) FROM entity_votes WHERE target_id = $1 AND target_type = $2
\* AND void = false AND upvote = ..; user_id is bound as $3 and not used.
\* (Mutant: only the user's votes are counted.)
count_votes_of_user(vs, e, u, upvote) ==
    Cardinality({r \in vs : r.target = e /\ r.author = u /\ ~r.void /\ r.upvote = upvote})
count_votes(vs, e, u, upvote) ==
    Cardinality({r \in vs : r.target = e /\ ~r.void /\ r.upvote = upvote})

VoteInit ==
    /\ votes = {}
    /\ approx = [e \in 1..NumEntities |-> [present |-> FALSE, n |-> 0]]
    /\ vnow = 1
    /\ gives = NoGive
    /\ vreq = NoVReq
    /\ sessions = {}
    /\ sclock = 0
    /\ issued = 0
    /\ sreq = NoReq
    /\ pc = "new"
    /\ inbound = <<>>
    /\ cancelled = FALSE
    /\ caller = [m \in Msgs |-> "idle"]
    /\ slot = [m \in Msgs |-> "none"]
    /\ fiber = [m \in Msgs |-> "none"]
    /\ layerAlive = FALSE
    /\ cleanupCalls = 0
    /\ submitted = <<>>
    /\ started = <<>>
    /\ replied = <<>>
    /\ tx = [t \in 1..NumTx |-> NoTx]
    /\ begun = 0
    /\ global_tab = vm_global_table
    /\ lua_globals = builtin_globals
    /\ gwritten = host_written
    /\ gread = NoRead
    /\ tarArchive = NoArchive
    /\ tarBlob = NoBlob
    /\ tarBack = NoBack
    /\ dcall = NoDCall
    /\ now = 0
    /\ vm = new(None, 0, 0)
    /\ call = [c \in Calls |-> NoCall]

\* EntityManager::give_votes(id, user_id, upvote).  per_user: what
\* get_full_vote_info answers.  Chosen inside: tags, the itag the database
\* gives to each row, and stmts, how many of the statements of the
\* transaction succeed (the per_user inserts, the upsert, the commit), 0 also
\* standing for a failure of get_full_vote_info or of pool.begin().
give_votes(e, u, upvote, per_user) ==
    /\ gives.n < MaxGiveVotes
    /\ \E tags \in [0..(per_user - 1) -> fresh_itags(votes, per_user)],
          stmts \in 0..(per_user + 2) :
        /\ \A i, j \in DOMAIN tags : i # j => tags[i] # tags[j]
        /\ LET t == Instants[vnow]
               k == IF stmts < per_user THEN stmts ELSE per_user
               tx_votes == votes \cup {vote_row(tags[i], e, u, upvote, i, t) : i \in 0..(k - 1)}
               tx_approx == IF stmts > per_user
                            THEN upsert_approx(approx, e, IF upvote THEN per_user ELSE 0 - per_user)
                            ELSE approx
               committed == stmts = per_user + 2
           IN  /\ votes' = IF committed THEN tx_votes ELSE rollback(votes, tx_votes)
               /\ approx' = IF committed THEN tx_approx ELSE rollback(approx, tx_approx)
               /\ gives' = IF committed
                           THEN [n |-> gives.n + 1, out |-> "Ok", e |-> e, u |-> u,
                                 upvote |-> upvote, per_user |-> per_user]
                           ELSE [NoGive EXCEPT !.n = gives.n + 1, !.out = "Err"]
    /\ UNCHANGED <<extVars, layerVars, vmVars, sessVars, vnow, vreq>>

\* A vote is voided (the column void, written outside the entity manager).
void_vote(tag) ==
    /\ Cardinality({r \in votes : r.void}) < MaxVoid
    /\ \E r \in votes :
          /\ r.itag = tag /\ ~r.void
          /\ votes' = (votes \ {r}) \cup {[r EXCEPT !.void = TRUE]}
    /\ UNCHANGED <<extVars, layerVars, vmVars, sessVars, approx, vnow, gives, vreq>>

\* EntityManager::fetch_votes(user_id, id, only_valid, limit_offset).
vote_fetch_votes(u, e, only_valid, lo, ok) ==
    /\ vreq.pc = "idle"
    /\ LET a == [NoArgs EXCEPT !.e = e, !.u = u, !.only_valid = only_valid, !.lo = lo] IN
        IF ok
        THEN \E res \in fetch_votes(votes, u, e, only_valid, lo) :
                vreq' = [op |-> "fetch_votes", pc |-> "done", args |-> a, out |-> "Ok",
                         val |-> [NoVal EXCEPT !.rows = res]]
        ELSE vreq' = [op |-> "fetch_votes", pc |-> "done", args |-> NoArgs, out |-> "Err",
                      val |-> NoVal]
    /\ UNCHANGED <<extVars, layerVars, vmVars, sessVars, votes, approx, vnow, gives>>

\* EntityManager::vote_check(id, user_id).  multiple_votes, vote_time: what
\* get_full_vote_info answers; d: the seconds between the two readings of
\* the clock.
vote_vote_check(u, e, multiple_votes, vote_time, d, ok) ==
    /\ vreq.pc = "idle"
    /\ LET a == [NoArgs EXCEPT !.e = e, !.u = u, !.only_valid = TRUE,
                               !.multiple_votes = multiple_votes,
                               !.vote_time = vote_time] IN
        IF ok
        THEN \E valid_votes \in fetch_votes(votes, u, e, TRUE, <<>>) :
                LET r == vote_check(valid_votes, multiple_votes, vote_time,
                                    Instants[vnow], Instants[vnow] + d)
                IN  vreq' = [op |-> "vote_check", pc |-> "done", args |-> a, out |-> "Ok",
                             val |-> [NoVal EXCEPT !.has_voted = r.has_voted,
                                                   !.wait = r.wait,
                                                   !.rows = valid_votes]]
        ELSE vreq' = [op |-> "vote_check", pc |-> "done", args |-> NoArgs, out |-> "Err",
                      val |-> NoVal]
    /\ UNCHANGED <<extVars, layerVars, vmVars, sessVars, votes, approx, vnow, gives>>

\* EntityManager::exact_vote_count(id, user_id), first query: the upvotes.
exact_vote_count_upvotes(e, u, ok) ==
    /\ vreq.pc = "idle"
    /\ LET a == [NoArgs EXCEPT !.e = e, !.u = u] IN
        vreq' = IF ok
                THEN [op |-> "exact_vote_count", pc |-> "downvotes", args |-> a,
                      out |-> "none",
                      val |-> [NoVal EXCEPT !.count = count_votes(votes, e, u, TRUE)]]
                ELSE [op |-> "exact_vote_count", pc |-> "done", args |-> NoArgs,
                      out |-> "Err", val |-> NoVal]
    /\ UNCHANGED <<extVars, layerVars, vmVars, sessVars, votes, approx, vnow, gives>>

\* exact_vote_count, second query: the downvotes, and the difference.
exact_vote_count_downvotes(ok) ==
    /\ vreq.pc = "downvotes"
    /\ vreq' = IF ok
               THEN [vreq EXCEPT !.pc = "done", !.out = "Ok",
                        !.val.count = vreq.val.count
                            - count_votes(votes, vreq.args.e, vreq.args.u, FALSE)]
               ELSE [vreq EXCEPT !.pc = "done", !.out = "Err", !.args = NoArgs,
                                 !.val = NoVal]
    /\ UNCHANGED <<extVars, layerVars, vmVars, sessVars, votes, approx, vnow, gives>>

\* The caller takes the result.
vote_return ==
    /\ vreq.pc = "done"
    /\ vreq' = NoVReq
    /\ UNCHANGED <<extVars, layerVars, vmVars, sessVars, votes, approx, vnow, gives>>

\* Time passes.
vote_tick ==
    /\ vnow < Len(Instants)
    /\ vnow' = vnow + 1
    /\ UNCHANGED <<extVars, layerVars, vmVars, sessVars, votes, approx, gives, vreq>>

VoteNext ==
    \/ \E e \in Entities, u \in Users, upvote \in BOOLEAN, per_user \in PerUsers :
          give_votes(e, u, upvote, per_user)
    \/ \E tag \in Itags : void_vote(tag)
    \/ \E u \in Users, e \in Entities, only_valid \in BOOLEAN, lo \in LimitOffsets,
          ok \in BOOLEAN : vote_fetch_votes(u, e, only_valid, lo, ok)
    \/ \E u \in Users, e \in Entities, mv \in BOOLEAN, vt \in VoteTimes, d \in 0..1,
          ok \in BOOLEAN : vote_vote_check(u, e, mv, vt, d, ok)
    \/ \E e \in Entities, u \in Users, ok \in BOOLEAN : exact_vote_count_upvotes(e, u, ok)
    \/ \E ok \in BOOLEAN : exact_vote_count_downvotes(ok)
    \/ vote_return
    \/ vote_tick

\* The entity manager alone.
VoteSpec == VoteInit /\ [][VoteNext]_vars

(***************************************************************************)
(* The action executor: DiscordActionExecutor of service/discord/mod.rs.   *)
(* A method is a sequence of steps, each left with `?` or `return Err` when *)
(* it fails; the last step is the provider's method.  What the provider,   *)
(* the guild and the script's arguments answer is the input of the call.   *)
(***************************************************************************)

Methods == {"remove_guild_member", "create_guild_ban", "modify_guild_member",
            "get_webhook", "modify_webhook", "delete_webhook", "execute_webhook"}
MemberMethods == {"remove_guild_member", "create_guild_ban", "modify_guild_member"}
WebhookMethods == {"get_webhook", "modify_webhook", "delete_webhook", "execute_webhook"}

\* Lengths of the reason in bytes.
ReasonLens == {0, 1, 512, 513}
\* greater_member_hierarchy(bot, target): the bot, the target, neither, or the
\* target is not a member of the guild.
Hierarchies == {"bot", "target", "none", "absent"}
\* The guild_id of the fetched webhook: a guild, no guild_id string, or the
\* fetch fails.
Guilds == {"g1", "g2"}
WebhookGuilds == Guilds \cup {"none", "err"}

\* What method m may meet; what it does not look at is left at its default,
\* except the hierarchy of a member method.
Vary(m, ms, S, d) == IF m \in ms THEN S ELSE {d}
Inputs(m) ==
    [ parse_ok : BOOLEAN,
      action_ok : BOOLEAN,
      user : Vary(m, Methods \ {"get_webhook", "execute_webhook"}, BOOLEAN, TRUE),
      self : Vary(m, {"modify_guild_member"}, BOOLEAN, FALSE),
      payload_ok : Vary(m, {"create_guild_ban", "modify_guild_member", "modify_webhook",
                            "execute_webhook"}, BOOLEAN, TRUE),
      perm_ok : Vary(m, MemberMethods \cup {"modify_webhook", "delete_webhook"}, BOOLEAN, TRUE),
      roles_ok : Vary(m, {"modify_guild_member"}, BOOLEAN, TRUE),
      hier : Vary(m, MemberMethods, Hierarchies, "bot"),
      reason : Vary(m, Methods \ {"get_webhook", "execute_webhook"}, ReasonLens, 1),
      has_channel : Vary(m, {"modify_webhook"}, BOOLEAN, FALSE),
      chan_ok : Vary(m, {"modify_webhook"}, BOOLEAN, TRUE),
      webhook : Vary(m, WebhookMethods, WebhookGuilds, "g1"),
      guild : Vary(m, WebhookMethods, Guilds, "g1"),
      files_ok : Vary(m, {"execute_webhook"}, BOOLEAN, TRUE),
      prov_ok : Vary(m, Methods \ {"get_webhook"}, BOOLEAN, TRUE) ]

Step(name, ok, err) == [name |-> name, ok |-> ok, err |-> err]

\* The steps in order, each left at its first failure.  (Mutant: a failed
\* step is reported but the steps after it still run.)
run_steps_on(steps) ==
    LET failed == {k \in 1..Len(steps) : ~steps[k].ok}
        first == CHOOSE k \in failed : \A j \in failed : k <= j
    IN  [out |-> IF failed = {} THEN "Ok" ELSE steps[first].err,
         trace |-> [k \in 1..Len(steps) |-> steps[k].name]]
run_steps(steps) ==
    LET failed == {k \in 1..Len(steps) : ~steps[k].ok}
        first == CHOOSE k \in failed : \A j \in failed : k <= j
        last == IF failed = {} THEN Len(steps) ELSE first
    IN  [out |-> IF failed = {} THEN "Ok" ELSE steps[first].err,
         trace |-> [k \in 1..last |-> steps[k].name]]

\* DiscordActionExecutor::check_reason: the length of the reason
check_reason(reason) == ~(reason > 512) /\ reason # 0

\* DiscordActionExecutor::check_permissions_and_hierarchy: the permission
\* part, then the target and greater_member_hierarchy.
check_permissions_and_hierarchy(i) ==
    << Step("check_permissions", i.perm_ok, "PermissionError"),
       Step("check_hierarchy", i.hier = "bot",
            IF i.hier = "absent" THEN "NotFound" ELSE "HierarchyError") >>

\* guild_id != discord_provider.guild_id().to_string(), on the guild_id
\* string of the fetched webhook.  (Mutant: any guild will do.)
same_guild_any(webhook, guild) == webhook \in Guilds
same_guild(webhook, guild) == webhook \in Guilds /\ webhook = guild

\* The fetch of the webhook and the check of its guild.
fetch_own_webhook(i) ==
    << Step("get_webhook", i.webhook # "err", "ProviderError"),
       Step("guild_id", same_guild(i.webhook, i.guild), "NotInGuild") >>

remove_guild_member(i) ==
    << Step("from_value", i.parse_ok, "ParseError"),
       Step("check_action", i.action_ok, "ActionError"),
       Step("current_user", i.user, "NoUser") >>
    \o check_permissions_and_hierarchy(i) \o
    << Step("check_reason", check_reason(i.reason), "ReasonError"),
       Step("provider", i.prov_ok, "ProviderError") >>

create_guild_ban(i) ==
    << Step("from_value", i.parse_ok, "ParseError"),
       Step("check_action", i.action_ok, "ActionError"),
       Step("validate", i.payload_ok, "ValidationError"),
       Step("current_user", i.user, "NoUser") >>
    \o check_permissions_and_hierarchy(i) \o
    << Step("check_reason", check_reason(i.reason), "ReasonError"),
       Step("provider", i.prov_ok, "ProviderError") >>

modify_guild_member(i) ==
    << Step("from_value", i.parse_ok, "ParseError"),
       Step("check_action", i.action_ok, "ActionError"),
       Step("current_user", i.user, "NoUser"),
       Step("not_self", ~i.self, "SelfError"),
       Step("validate", i.payload_ok, "ValidationError"),
       Step("check_permissions", i.perm_ok, "PermissionError"),
       Step("check_roles", i.roles_ok, "PermissionError"),
       Step("check_reason", check_reason(i.reason), "ReasonError"),
       Step("provider", i.prov_ok, "ProviderError") >>

get_webhook(i) ==
    << Step("from_value", i.parse_ok, "ParseError"),
       Step("check_action", i.action_ok, "ActionError") >>
    \o fetch_own_webhook(i)

modify_webhook(i) ==
    << Step("from_value", i.parse_ok, "ParseError"),
       Step("check_action", i.action_ok, "ActionError"),
       Step("check_reason", check_reason(i.reason), "ReasonError"),
       Step("validate", i.payload_ok, "ValidationError"),
       Step("current_user", i.user, "NoUser") >>
    \o (IF i.has_channel
        THEN << Step("check_channel_permissions", i.chan_ok, "ChannelError") >>
        ELSE << >>)
    \o << Step("check_permissions", i.perm_ok, "PermissionError") >>
    \o fetch_own_webhook(i)
    \o << Step("provider", i.prov_ok, "ProviderError") >>

delete_webhook(i) ==
    << Step("from_value", i.parse_ok, "ParseError"),
       Step("check_action", i.action_ok, "ActionError"),
       Step("check_reason", check_reason(i.reason), "ReasonError"),
       Step("current_user", i.user, "NoUser"),
       Step("check_permissions", i.perm_ok, "PermissionError") >>
    \o fetch_own_webhook(i)
    \o << Step("provider", i.prov_ok, "ProviderError") >>

execute_webhook(i) ==
    << Step("from_value", i.parse_ok, "ParseError"),
       Step("validate", i.payload_ok, "ValidationError"),
       Step("check_action", i.action_ok, "ActionError") >>
    \o fetch_own_webhook(i)
    \o << Step("take_files", i.files_ok, "FilesError"),
          Step("provider", i.prov_ok, "ProviderError") >>

\* The method registered under the name m.
add_methods(m, i) ==
    CASE m = "remove_guild_member" -> remove_guild_member(i)
      [] m = "create_guild_ban" -> create_guild_ban(i)
      [] m = "modify_guild_member" -> modify_guild_member(i)
      [] m = "get_webhook" -> get_webhook(i)
      [] m = "modify_webhook" -> modify_webhook(i)
      [] m = "delete_webhook" -> delete_webhook(i)
      [] m = "execute_webhook" -> execute_webhook(i)

DiscInit ==
    /\ dcall = NoDCall
    /\ sessions = {}
    /\ sclock = 0
    /\ issued = 0
    /\ sreq = NoReq
    /\ votes = {}
    /\ approx = [e \in 1..NumEntities |-> [present |-> FALSE, n |-> 0]]
    /\ vnow = 1
    /\ gives = NoGive
    /\ vreq = NoVReq
    /\ pc = "new"
    /\ inbound = <<>>
    /\ cancelled = FALSE
    /\ caller = [m \in Msgs |-> "idle"]
    /\ slot = [m \in Msgs |-> "none"]
    /\ fiber = [m \in Msgs |-> "none"]
    /\ layerAlive = FALSE
    /\ cleanupCalls = 0
    /\ submitted = <<>>
    /\ started = <<>>
    /\ replied = <<>>
    /\ tx = [t \in 1..NumTx |-> NoTx]
    /\ begun = 0
    /\ global_tab = vm_global_table
    /\ lua_globals = builtin_globals
    /\ gwritten = host_written
    /\ gread = NoRead
    /\ tarArchive = NoArchive
    /\ tarBlob = NoBlob
    /\ tarBack = NoBack
    /\ now = 0
    /\ vm = new(None, 0, 0)
    /\ call = [c \in Calls |-> NoCall]

\* A script calls method m of the executor and meets i.
call_method(m, i) ==
    /\ dcall.method = "none"
    /\ LET r == run_steps(add_methods(m, i)) IN
        dcall' = [method |-> m, in |-> i, out |-> r.out, trace |-> r.trace]
    /\ UNCHANGED <<layerVars, vmVars, dbVars, tarVars, globVars, txVars>>

\* The script takes the result or the error.
method_return ==
    /\ dcall.method # "none"
    /\ dcall' = NoDCall
    /\ UNCHANGED <<layerVars, vmVars, dbVars, tarVars, globVars, txVars>>

DiscNext ==
    \/ \E m \in Methods : \E i \in Inputs(m) : call_method(m, i)
    \/ method_return

\* The action executor alone.
DiscSpec == DiscInit /\ [][DiscNext]_vars

(****************************************************************************)
(* TarArchive of service/luacore/datamgmt.rs.  An entry name is a byte      *)
(* string; it is kept here as the sequence of its segments between the "/"  *)
(* bytes, so <<"">> is the empty name, <<".", "a">> is "./a" and            *)
(* <<"a", "">> is "a/".  A blob made by to_blob is the sequence of the      *)
(* members written: the path of the header, its size field and the data.    *)
(****************************************************************************)

Segs == {"a", "b", ".", "..", ""}
Names == UNION {[1..n -> Segs] : n \in 1..MaxSegs}
Datas == UNION {[1..n -> {7}] : n \in 0..MaxData}

\* HashMap::insert and HashMap::remove on entries
add_entry(entries, name, blob) ==
    [n \in DOMAIN entries \cup {name} |-> IF n = name THEN blob ELSE entries[n]]

take_entry(entries, name) == [n \in DOMAIN entries \ {name} |-> entries[n]]

\* Path::components of the name: "/" is the root, "." a leading current
\* directory, ".." a parent directory; empty segments and inner "." are dropped.
RECURSIVE components_from(_, _)
components_from(name, i) ==
    IF i > Len(name) THEN <<>>
    ELSE LET s == name[i]
             rest == components_from(name, i + 1)
         IN  IF s = "" THEN (IF i = 1 /\ Len(name) > 1 THEN <<"/">> \o rest ELSE rest)
             ELSE IF s = "." THEN (IF i = 1 THEN <<".">> \o rest ELSE rest)
             ELSE <<s>> \o rest

components(name) == components_from(name, 1)

\* The path append_data writes into the header: the components joined by "/",
\* refused for a root, a parent directory or no component at all; a "." is
\* kept only when it is the whole path; a trailing "/" is kept.
set_path(name) ==
    LET cs == components(name)
        emitted == SelectSeq(cs, LAMBDA c : c # "." \/ Len(cs) = 1)
        slash == Len(name) > 1 /\ name[Len(name)] = ""
    IN  IF (\E k \in 1..Len(cs) : cs[k] \in {"/", ".."}) \/ emitted = <<>>
        THEN [ok |-> FALSE, path |-> <<>>]
        ELSE [ok |-> TRUE, path |-> emitted \o (IF slash THEN <<"">> ELSE <<>>)]

\* The orders in which a HashMap may hand out its entries.
Orders(entries) ==
    {ord \in [1..Cardinality(DOMAIN entries) -> DOMAIN entries] :
        \A j, k \in DOMAIN ord : j # k => ord[j] # ord[k]}

RECURSIVE append_data(_, _, _)
append_data(entries, ord, k) ==
    IF k > Len(ord) THEN <<>>
    ELSE <<[path |-> set_path(ord[k]).path,
            size |-> Len(entries[ord[k]]),
            data |-> entries[ord[k]]]>> \o append_data(entries, ord, k + 1)

to_blob(entries, ord) ==
    IF \E n \in DOMAIN entries : ~set_path(n).ok
    THEN [ok |-> FALSE, data |-> <<>>]
    ELSE [ok |-> TRUE, data |-> append_data(entries, ord, 1)]

RECURSIVE from_array_upto(_, _)
from_array_upto(arr, k) ==
    IF k = 0 THEN NoEntries
    ELSE add_entry(from_array_upto(arr, k - 1), arr[k].path,
                   SubSeq(arr[k].data, 1, arr[k].size))

from_array(arr) == from_array_upto(arr, Len(arr))

from_blob(blob) == from_array(blob)

TarInit ==
    /\ tarArchive = NoArchive
    /\ tarBlob = NoBlob
    /\ tarBack = NoBack
    /\ dcall = NoDCall
    /\ sessions = {}
    /\ sclock = 0
    /\ issued = 0
    /\ sreq = NoReq
    /\ votes = {}
    /\ approx = [e \in 1..NumEntities |-> [present |-> FALSE, n |-> 0]]
    /\ vnow = 1
    /\ gives = NoGive
    /\ vreq = NoVReq
    /\ pc = "new"
    /\ inbound = <<>>
    /\ cancelled = FALSE
    /\ caller = [m \in Msgs |-> "idle"]
    /\ slot = [m \in Msgs |-> "none"]
    /\ fiber = [m \in Msgs |-> "none"]
    /\ layerAlive = FALSE
    /\ cleanupCalls = 0
    /\ submitted = <<>>
    /\ started = <<>>
    /\ now = 0
    /\ vm = new(None, 0, 0)
    /\ call = [c \in Calls |-> NoCall]
    /\ replied = <<>>
    /\ tx = [t \in 1..NumTx |-> NoTx]
    /\ begun = 0
    /\ global_tab = vm_global_table
    /\ lua_globals = builtin_globals
    /\ gwritten = host_written
    /\ gread = NoRead

\* datamgmt.TarArchive(): a new archive; the earlier archive and blob are dropped.
tar_new ==
    /\ tarArchive.taken \/ tarArchive.entries # NoEntries
    /\ tarArchive' = NoArchive
    /\ tarBlob' = NoBlob
    /\ tarBack' = NoBack
    /\ UNCHANGED <<layerVars, vmVars, dbVars, globVars, txVars, discVars>>

tar_addfile(name, blob) ==
    /\ ~tarArchive.taken
    /\ Cardinality(DOMAIN tarArchive.entries \cup {name}) <= MaxEntries
    /\ tarArchive' = [tarArchive EXCEPT !.entries = add_entry(@, name, blob)]
    /\ UNCHANGED <<layerVars, vmVars, dbVars, globVars, txVars, discVars, tarBlob, tarBack>>

tar_takefile(name) ==
    /\ ~tarArchive.taken
    /\ name \in DOMAIN tarArchive.entries
    /\ tarArchive' = [tarArchive EXCEPT !.entries = take_entry(@, name)]
    /\ UNCHANGED <<layerVars, vmVars, dbVars, globVars, txVars, discVars, tarBlob, tarBack>>

\* toblob takes the userdata and writes its entries in the order the HashMap
\* hands them out.
tar_toblob ==
    /\ ~tarArchive.taken
    /\ \E ord \in Orders(tarArchive.entries) :
        LET b == to_blob(tarArchive.entries, ord)
        IN  tarBlob' = [set |-> TRUE, of |-> tarArchive.entries, ok |-> b.ok, data |-> b.data]
    /\ tarArchive' = [taken |-> TRUE, entries |-> NoEntries]
    /\ UNCHANGED <<layerVars, vmVars, dbVars, globVars, txVars, discVars, tarBack>>

tar_from_blob ==
    /\ tarBlob.set /\ tarBlob.ok
    /\ ~tarBack.set
    /\ tarBack' = [set |-> TRUE, of |-> tarBlob.of, entries |-> from_blob(tarBlob.data)]
    /\ UNCHANGED <<layerVars, vmVars, dbVars, globVars, txVars, discVars, tarArchive, tarBlob>>

TarNext ==
    \/ tar_new
    \/ \E name \in Names, blob \in Datas : tar_addfile(name, blob)
    \/ \E name \in Names : tar_takefile(name)
    \/ tar_toblob
    \/ tar_from_blob

TarSpec == TarInit /\ [][TarNext]_vars

(***************************************************************************)
(* The proxied global table: proxy_global of service/lua.rs, as the        *)
(* environment of every chunk the Vm loads.                                *)
(***************************************************************************)

\* Indexing a table whose metatable has __index = globals: the raw entry when
\* there is one, the entry of globals otherwise.
tab_get(tab, globals, k) == IF tab[k] # Nil THEN tab[k] ELSE globals[k]

GlobInit ==
    /\ global_tab = vm_global_table
    /\ lua_globals = builtin_globals
    /\ gwritten = host_written
    /\ gread = NoRead
    /\ tarArchive = NoArchive
    /\ tarBlob = NoBlob
    /\ tarBack = NoBack
    /\ dcall = NoDCall
    /\ sessions = {}
    /\ sclock = 0
    /\ issued = 0
    /\ sreq = NoReq
    /\ votes = {}
    /\ approx = [e \in 1..NumEntities |-> [present |-> FALSE, n |-> 0]]
    /\ vnow = 1
    /\ gives = NoGive
    /\ vreq = NoVReq
    /\ pc = "new"
    /\ inbound = <<>>
    /\ cancelled = FALSE
    /\ caller = [m \in Msgs |-> "idle"]
    /\ slot = [m \in Msgs |-> "none"]
    /\ fiber = [m \in Msgs |-> "none"]
    /\ layerAlive = FALSE
    /\ cleanupCalls = 0
    /\ submitted = <<>>
    /\ started = <<>>
    /\ now = 0
    /\ vm = new(None, 0, 0)
    /\ call = [c \in Calls |-> NoCall]
    /\ replied = <<>>
    /\ tx = [t \in 1..NumTx |-> NoTx]
    /\ begun = 0

\* A script assigns the global k: the metatable has no __newindex, so the
\* value lands on the proxied table.
global_write(k, v) ==
    /\ global_tab' = tab_set(global_tab, k, v)
    /\ gwritten' = [gwritten EXCEPT ![k] = v]
    /\ UNCHANGED <<layerVars, vmVars, dbVars, discVars, tarVars, txVars, lua_globals, gread>>

\* A script reads the global k.
global_read(k) ==
    /\ gread' = [key |-> k, value |-> tab_get(global_tab, lua_globals, k),
                 written |-> gwritten[k]]
    /\ UNCHANGED <<layerVars, vmVars, dbVars, discVars, tarVars, txVars, global_tab, lua_globals, gwritten>>

GlobNext ==
    \/ \E k \in Keys, v \in Written : global_write(k, v)
    \/ \E k \in Keys : global_read(k)

GlobSpec == GlobInit /\ [][GlobNext]_vars

(***************************************************************************)
(* EntityManager::give_votes, statement by statement, for callers that run *)
(* at the same time.  votes and approx are the committed tables.  What a   *)
(* transaction has written is seen by it alone until it commits; the row   *)
(* of entity_approx_votes it has upserted stays locked until it ends.      *)
(***************************************************************************)

Txs == 1..NumTx

tx_open(txs, t) == txs[t].pc \in {"insert", "commit"}

\* (Mutant: the upsert does not wait for the transaction that holds the row.)
approx_locked_never(txs, t, e) == FALSE
\* The row (e) of entity_approx_votes is written by another open transaction.
approx_locked(txs, t, e) == \E o \in Txs \ {t} : txs[o].pc = "commit" /\ txs[o].e = e

\* The rows the transaction inserted, as they are once committed.
tx_rows(vs, c, t) ==
    {vote_row(Cardinality(vs) + 1 + i, c.e, c.u, c.upvote, i, t) : i \in 0..(c.i - 1)}

ConcInit ==
    /\ tx = [t \in 1..NumTx |-> NoTx]
    /\ begun = 0
    /\ votes = {}
    /\ approx = [e \in 1..NumEntities |-> [present |-> FALSE, n |-> 0]]
    /\ vnow = 1
    /\ gives = NoGive
    /\ vreq = NoVReq
    /\ global_tab = vm_global_table
    /\ lua_globals = builtin_globals
    /\ gwritten = host_written
    /\ gread = NoRead
    /\ tarArchive = NoArchive
    /\ tarBlob = NoBlob
    /\ tarBack = NoBack
    /\ dcall = NoDCall
    /\ sessions = {}
    /\ sclock = 0
    /\ issued = 0
    /\ sreq = NoReq
    /\ pc = "new"
    /\ inbound = <<>>
    /\ cancelled = FALSE
    /\ caller = [m \in Msgs |-> "idle"]
    /\ slot = [m \in Msgs |-> "none"]
    /\ fiber = [m \in Msgs |-> "none"]
    /\ layerAlive = FALSE
    /\ cleanupCalls = 0
    /\ submitted = <<>>
    /\ started = <<>>
    /\ now = 0
    /\ vm = new(None, 0, 0)
    /\ call = [c \in Calls |-> NoCall]
    /\ replied = <<>>

\* give_votes(id, user_id, upvote) up to pool.begin(); ok: get_full_vote_info
\* and begin succeed.
tx_begin(t, e, u, upvote, per_user, ok) ==
    /\ tx[t].pc = "idle"
    /\ begun < MaxBegun
    /\ begun' = begun + 1
    /\ LET others == {o \in Txs \ {t} : tx_open(tx, o)} IN
        tx' = [o \in Txs |->
                IF o = t
                THEN IF ok
                     THEN [NoTx EXCEPT !.pc = "insert", !.e = e, !.u = u, !.upvote = upvote,
                                       !.per_user = per_user, !.conc = others # {}]
                     ELSE [NoTx EXCEPT !.pc = "done", !.out = "Err"]
                ELSE IF ok /\ o \in others THEN [tx[o] EXCEPT !.conc = TRUE] ELSE tx[o]]
    /\ UNCHANGED <<layerVars, vmVars, dbVars, discVars, tarVars, globVars>>

\* One INSERT INTO entity_votes of the loop.
tx_insert(t) ==
    /\ tx[t].pc = "insert"
    /\ tx[t].i < tx[t].per_user
    /\ tx' = [tx EXCEPT ![t].i = @ + 1]
    /\ UNCHANGED <<layerVars, vmVars, dbVars, discVars, tarVars, globVars, begun>>

\* INSERT INTO entity_approx_votes .. ON CONFLICT .. DO UPDATE, once the loop
\* is over: it waits while another open transaction has written the row, and
\* adds to the row as committed.
tx_upsert(t) ==
    /\ tx[t].pc = "insert"
    /\ tx[t].i = tx[t].per_user
    /\ ~approx_locked(tx, t, tx[t].e)
    /\ LET d == IF tx[t].upvote THEN tx[t].per_user ELSE 0 - tx[t].per_user IN
        tx' = [tx EXCEPT ![t].pc = "commit", ![t].row = upsert_approx(approx, tx[t].e, d)[tx[t].e]]
    /\ UNCHANGED <<layerVars, vmVars, dbVars, discVars, tarVars, globVars, begun>>

\* tx.commit() succeeds: the rows and the upserted row become visible.
tx_commit(t) ==
    /\ tx[t].pc = "commit"
    /\ votes' = votes \cup tx_rows(votes, tx[t], Instants[vnow])
    /\ approx' = [approx EXCEPT ![tx[t].e] = tx[t].row]
    /\ tx' = [tx EXCEPT ![t].pc = "done", ![t].out = "Ok"]
    /\ UNCHANGED <<layerVars, vmVars, sessVars, discVars, tarVars, globVars, begun, vnow, gives, vreq>>

\* A statement or the commit fails: the error is returned with `?` and the
\* transaction is dropped.
tx_fail(t) ==
    /\ tx_open(tx, t)
    /\ votes' = rollback(votes, votes \cup tx_rows(votes, tx[t], Instants[vnow]))
    /\ approx' = rollback(approx, [approx EXCEPT ![tx[t].e] = tx[t].row])
    /\ tx' = [tx EXCEPT ![t].pc = "done", ![t].out = "Err"]
    /\ UNCHANGED <<layerVars, vmVars, sessVars, discVars, tarVars, globVars, begun, vnow, gives, vreq>>

\* The caller takes the result.
tx_return(t) ==
    /\ tx[t].pc = "done"
    /\ tx' = [tx EXCEPT ![t] = NoTx]
    /\ UNCHANGED <<layerVars, vmVars, dbVars, discVars, tarVars, globVars, begun>>

ConcNext ==
    \/ \E t \in Txs, e \in Entities, u \in Users, upvote \in BOOLEAN, per_user \in PerUsers,
          ok \in BOOLEAN : tx_begin(t, e, u, upvote, per_user, ok)
    \/ \E t \in Txs : tx_insert(t)
    \/ \E t \in Txs : tx_upsert(t)
    \/ \E t \in Txs : tx_commit(t)
    \/ \E t \in Txs : tx_fail(t)
    \/ \E t \in Txs : tx_return(t)

ConcSpec == ConcInit /\ [][ConcNext]_vars

(***************************************************************************)
(* Claims about the layer thread.                                          *)
(***************************************************************************)

\* C1: for one layer, fibers are started (spawn_local) in the order in which
\* their messages were submitted to the inbound queue: the sequence of
\* started messages is always a prefix of the sequence of submitted ones.
C1_StartedInSubmissionOrder == IsPrefix(started, submitted)

C1_Witness == Len(started) >= 2 /\ Len(submitted) >= 2

\* C2 (as claimed): once the token is cancelled the loop starts no further
\* fiber; leaving the loop calls cleanup exactly once and drops the layer.
C2_NoStartAfterCancel ==
    [][ /\ (cancelled => started' = started)
        /\ (pc = "select" /\ pc' = "exited"
              => cleanupCalls' = 1 /\ ~layerAlive') ]_vars

\* C3: a dispatch call does not wait forever once the layer is cancelled or
\* its thread has exited: no reply channel stays open after the exit, and a
\* caller waiting under cancellation eventually stops waiting.
C3_DispatchReturns ==
    /\ [](pc = "exited" => \A m \in Msgs : slot[m] # "open")
    /\ \A m \in Msgs :
         (caller[m] = "waiting" /\ (cancelled \/ pc = "exited"))
            ~> (caller[m] # "waiting")

C3_Witness ==
    \E m \in Msgs : cancelled /\ caller[m] = "err" /\ slot[m] = "tx_dropped"

\* C4: when the caller has dropped its reply slot, the fiber still runs
\* layer.dispatch to its end, the failed send raises nothing and delivers
\* nothing, and the loop and its queue are left as they were.
C4_DroppedReplyDiscarded ==
    [][ \A m \in Msgs :
          (slot[m] = "rx_dropped" /\ fiber[m] = "running"
             /\ fiber'[m] \notin {"running", "aborted"})
          => /\ fiber'[m] = "finished"
             /\ slot'[m] = "rx_dropped"
             /\ replied' = replied
             /\ pc' = pc /\ inbound' = inbound ]_vars

C4_Witness ==
    \E m, n \in Msgs :
        /\ m # n
        /\ slot[m] = "rx_dropped" /\ fiber[m] = "finished"
        /\ IsPrefix(<<m, n>>, started) /\ caller[n] = "ok"

\* C5: a request does not wait for earlier requests: while the loop is in
\* select!, a queued message can be received, a spawned fiber polled and a
\* running fiber finished, whatever the state of the other fibers.
C5_NoWaitForEarlier ==
    /\ (pc = "select" /\ inbound # <<>>) => ENABLED thread_recv
    /\ \A m \in Msgs :
         /\ (pc = "select" /\ fiber[m] = "spawned") => ENABLED fiber_poll(m)
         /\ (pc = "select" /\ fiber[m] = "running") => ENABLED fiber_finish(m, "ok")

\* The later message's reply is delivered while the earlier fiber is suspended.
C5_Witness ==
    \E a, b \in Msgs :
        /\ a # b
        /\ IsPrefix(<<a, b>>, submitted)
        /\ fiber[a] = "running" /\ slot[a] = "open"
        /\ caller[b] = "ok"

(***************************************************************************)
(* Claims about the interpreter host.                                      *)
(***************************************************************************)

\* C6 (as claimed): in every state broken = true implies that the Luau state
\* has been released, and an invocation (run, eval_script, eval_chunk,
\* call_in_scheduler) attempted on a broken Vm returns an error at once,
\* without a fiber being queued or script code being run.
C6_BrokenReleasedAndRefuses ==
    /\ [](vm.broken => vm.lua = "released")
    /\ [][ \A c \in Calls :
             (vm.broken /\ call[c].phase = "idle" /\ call'[c].phase # "idle")
                => (call'[c].phase = "done" /\ call'[c].out \in ErrResults) ]_vars

\* C7 (as claimed): whatever is done with a Vm (repeated mark_broken(true),
\* memory errors, close), its on_broken callback is invoked at most once.
C7_OnBrokenOnce == vm.on_broken_calls <= 1

\* C8 (as claimed): when an operation returns a memory error to its caller,
\* the Vm is broken by then, its Luau state is dropped and the registered
\* on_broken callback has been invoked for it.
C8_MemoryErrorBreaks ==
    [][ \A c \in Calls :
          (call[c].phase # "done" /\ call'[c].phase = "done"
             /\ call'[c].out = "MemoryError")
          => /\ vm'.broken
             /\ vm'.lua = "released"
             /\ (vm.on_broken => vm'.on_broken_calls > vm.on_broken_calls) ]_vars

\* C9: close() is idempotent.  In every reachable state of the Vm, among
\* them the states after close() and after mark_broken(), close() returns
\* Ok, invokes no callback and leaves broken = true with the Luau state
\* released; a second close() returns Ok and changes nothing more.
C9_CloseIdempotent ==
    LET once == close(vm, FALSE)
        twice == close(once.vm, FALSE) IN
    /\ once.out = "Ok"
    /\ once.vm.broken /\ once.vm.lua = "released"
    /\ once.vm.on_broken_calls = vm.on_broken_calls
    /\ twice.out = "Ok"
    /\ twice.vm = once.vm
    /\ (vm.broken /\ vm.lua = "released" => once.vm = vm)

\* A Vm broken by mark_broken(true), its callback invoked, on which close()
\* is called again.
C9_Witness ==
    /\ vm.broken /\ vm.lua = "released"
    /\ vm.on_broken /\ vm.on_broken_calls = 1
    /\ close(vm, FALSE) = [vm |-> vm, out |-> "Ok"]

\* Script code that has run without yielding for more than time_limit +
\* give_time on a Vm that is not broken.
OverBudget(c) ==
    /\ call[c].phase = "running"
    /\ ~vm.broken
    /\ vm.time_limit # None
    /\ now - call[c].run_start > vm.time_limit + vm.give_time

C11_TimeLimitNotTerminal ==
    [][ \A c \in Calls :
          /\ (call[c].phase = "running" /\ call'[c].out = "TimeLimit")
                => (~vm'.broken /\ vm'.lua = "alive" /\ vm' = vm)
          /\ (call[c].phase = "returned" /\ call[c].out = "TimeLimit"
                /\ call'[c].phase = "done" /\ call'[c].out = "TimeLimit")
                => (vm'.broken = vm.broken /\ vm'.lua = "alive")
          /\ (call[c].phase = "idle" /\ call'[c].phase \in {"queued", "running"})
                => /\ vm'.last_execution_time = now
                   /\ vm'.execution_stop_time =
                        IF vm'.time_limit = None THEN None ELSE now + vm'.time_limit
          /\ (call[c].phase # "running" /\ call'[c].phase = "running" /\ ~vm'.broken)
                => interrupt(vm', now') = "Continue" ]_vars

\* One invocation has failed on the time limit; the next one, started
\* after it on the same Vm at a later instant, runs under its own budget.
C11_Witness ==
    /\ call[1].phase = "done" /\ call[1].out = "TimeLimit"
    /\ call[2].phase = "running" /\ call[2].op = "eval_script"
    /\ call[2].run_start = now /\ now > 1
    /\ ~vm.broken /\ vm.lua = "alive"
    /\ vm.execution_stop_time = now + vm.time_limit
    /\ interrupt(vm, now) = "Continue"

\* C12: over any sequence of run calls on one Vm a function is made at most
\* once for each path: a path is in the cache exactly when one function was
\* compiled and stored for it, a run of a cached path compiles nothing, and
\* no step removes a cache entry.
C12_CompiledOnce ==
    /\ [](\A p \in Paths :
            /\ vm.compiles[p] <= 1
            /\ (p \in vm.function_cache <=> vm.compiles[p] = 1))
    /\ [][ /\ vm.function_cache \subseteq vm'.function_cache
           /\ \A p \in vm.function_cache : vm'.compiles[p] = vm.compiles[p] ]_vars

\* Two runs of the same path on one Vm, both accepted, one compile.
C12_Witness ==
    /\ call[1].op = "run" /\ call[2].op = "run"
    /\ call[1].path = call[2].path
    /\ call[1].phase = "returned" /\ call[1].out = "Ok"
    /\ call[2].phase = "running"
    /\ vm.compiles[call[1].path] = 1

\* The invocation in place c runs on a Vm that is not broken, has a time
\* limit, and started its newest invocation more than time_limit ago.
PastLimit(c) ==
    /\ call[c].phase = "running"
    /\ ~vm.broken
    /\ vm.time_limit # None
    /\ vm.last_execution_time # None
    /\ now - vm.last_execution_time > vm.time_limit

\* C24 (as claimed): whenever the interrupt is consulted on a non-broken Vm
\* with a time limit and now - last_execution_time is greater than
\* time_limit, the running invocation fails.
C24_BudgetPerInvocationAnyStop ==
    \A c \in Calls : PastLimit(c) => ENABLED script_interrupt(c)

\* C24 (amended): the same, while the stop instant is still
\* last_execution_time + time_limit (no resume has moved it and
\* set_time_limit has not changed the limit since the invocation started);
\* the invocation then fails with the time limit error.
C24_BudgetPerInvocation ==
    /\ [](\A c \in Calls :
            (PastLimit(c) /\ vm.execution_stop_time = vm.last_execution_time + vm.time_limit)
                => ENABLED script_interrupt(c))
    /\ [][ \A c \in Calls :
            (PastLimit(c) /\ vm.execution_stop_time = vm.last_execution_time + vm.time_limit
               /\ script_interrupt(c))
                => call'[c].out = "TimeLimit" ]_vars

\* An invocation that was ended by the time limit, its stop instant being
\* its start plus the limit.
C24_Witness ==
    \E c \in Calls :
        /\ call[c].out = "TimeLimit"
        /\ ~vm.broken /\ vm.time_limit # None /\ vm.last_execution_time # None
        /\ vm.execution_stop_time = vm.last_execution_time + vm.time_limit
        /\ now - vm.last_execution_time > vm.time_limit

\* C25: on each resume of a fiber of a Vm that has a stop instant, the
\* resume hook leaves the stop instant where it is when it is at least
\* now + give_time and otherwise sets it to now + give_time, so that right
\* after the resume the fiber has at least give_time left.
C25_ResumeGivesTime ==
    [][ \A c \in Calls :
          (call[c].phase = "queued" /\ call'[c].phase = "running"
             /\ vm.execution_stop_time # None)
            => /\ vm'.execution_stop_time =
                     IF vm.execution_stop_time >= now + vm.give_time
                     THEN vm.execution_stop_time ELSE now + vm.give_time
               /\ vm'.execution_stop_time - now >= vm.give_time
               /\ [vm' EXCEPT !.execution_stop_time = 0] = [vm EXCEPT !.execution_stop_time = 0]
      ]_vars

\* A fiber resumed, after time has passed, with a stop instant that is at
\* least give_time away.
C25_Witness ==
    \E c \in Calls :
        /\ call[c].phase = "running" /\ call[c].op # "eval_script"
        /\ call[c].run_start = now /\ now > 0
        /\ vm.give_time > 0
        /\ vm.execution_stop_time # None
        /\ vm.execution_stop_time >= now + vm.give_time

\* C26: whenever the interrupt is consulted while broken is set it yields
\* the fiber and gives no error, also when the stop instant has passed: the
\* running invocation is not ended by the time limit.
C26_BrokenYields ==
    [][ \A c \in Calls :
          (call[c].phase = "running" /\ vm.broken)
            => /\ call'[c].out # "TimeLimit"
               /\ (script_interrupt(c) /\ call[c].op # "eval_script")
                     => (call'[c].phase = "queued" /\ call'[c].out = "none") ]_vars

\* A script running on a broken Vm past its stop instant.
C26_Witness ==
    \E c \in Calls :
        /\ call[c].phase = "running" /\ vm.broken
        /\ vm.execution_stop_time # None /\ now > vm.execution_stop_time

(***************************************************************************)
(* Claims about the session manager.                                       *)
(***************************************************************************)

\* C13: get_session_by_token(t) first deletes every row whose expiry is
\* before now, and returns a session only if it is a row of the table with
\* token = t whose expiry is not before now at the time of the lookup.
C13_SessionByToken ==
    [][ /\ (sreq.pc = "idle" /\ sreq'.pc = "select")
              => \A r \in sessions' : r.expiry >= sclock
        /\ (sreq.op = "get_session_by_token" /\ sreq.pc = "select"
              /\ sreq'.pc = "done" /\ sreq'.kind # "Err")
              => /\ sreq'.kind = "Some" <=> sreq'.rows # {}
                 /\ \A r \in sreq'.rows :
                      /\ r \in sessions
                      /\ r.token = sreq.token
                      /\ r.expiry >= sclock
                 /\ (sreq'.rows = {} =>
                       ~\E r \in sessions : r.token = sreq.token /\ r.expiry >= sclock)
      ]_vars

\* A session found by its token after time has passed and another session
\* has expired.
C13_Witness ==
    /\ sreq.op = "get_session_by_token" /\ sreq.pc = "done" /\ sreq.kind = "Some"
    /\ sclock > 0 /\ issued = 2 /\ Cardinality(sessions) = 1

\* C14 (as claimed): every read of the session manager (get_session_by_token,
\* get_permit_for, get_sessions) prunes the expired rows, so that the
\* sessions a read returns have an expiry that is not before now.
C14_ReadsPrune ==
    [][ (sreq.pc # "done" /\ sreq'.pc = "done" /\ sreq'.kind # "Err")
          => \A r \in sreq'.rows : r.expiry >= sclock ]_vars

\* C15: get_permit_for(token) returns InvalidToken when no unexpired
\* session has the token; else EntityNotSupported when the session's
\* target_type has no entity kind; else ApiBanned when the entity's flags
\* contain BANNED; else Success.
C15_PermitOrder ==
    [][ /\ (sreq.op = "get_permit_for" /\ sreq.pc = "select" /\ sreq'.pc = "permit")
              => sreq'.rows = {r \in sessions :
                                  r.token = sreq.token /\ r.expiry >= sclock}
        /\ (sreq.pc = "permit" /\ sreq'.pc = "done" /\ sreq'.kind # "Err")
              => LET none == sreq.rows = {}
                     known == \A r \in sreq.rows : r.target_type \in {"dummy", "dodo"}
                     banned == (sreq'.flags \div BANNED) % 2 = 1
                 IN /\ sreq'.kind \in {"InvalidToken", "EntityNotSupported",
                                       "ApiBanned", "Success"}
                    /\ sreq'.kind = "InvalidToken" <=> none
                    /\ sreq'.kind = "EntityNotSupported" <=> (~none /\ ~known)
                    /\ sreq'.kind = "ApiBanned" <=> (~none /\ known /\ banned)
                    /\ sreq'.kind = "Success" <=> (~none /\ known /\ ~banned)
      ]_vars

\* A session of a supported entity kind whose entity is banned.
C15_Witness ==
    /\ sreq.op = "get_permit_for" /\ sreq.pc = "done" /\ sreq.kind = "ApiBanned"
    /\ \E r \in sreq.rows : r.target_type = "dodo"

(***************************************************************************)
(* Claims about the entity manager.                                        *)
(***************************************************************************)

\* C16: give_votes is all-or-nothing: when a vote insert, the upsert of
\* entity_approx_votes or the commit fails, no row of the call is in
\* entity_votes afterwards and approximate_votes is what it was.
C16_GiveVotesAtomic ==
    [][ (gives'.n = gives.n + 1 /\ gives'.out = "Err")
          => (votes' = votes /\ approx' = approx) ]_vars

\* A give_votes call that failed after an earlier one had succeeded.
C16_Witness ==
    /\ gives.n = 2 /\ gives.out = "Err"
    /\ votes # {} /\ \E e \in Entities : approx[e].present /\ approx[e].n # 0

C18_VoteCheck ==
    [][ (vreq.pc = "idle" /\ vreq'.op = "vote_check" /\ vreq'.out = "Ok")
          => LET a == vreq'.args
                 v == vreq'.val
                 t == Instants[vnow]
                 valid == {r \in votes : r.author = a.u /\ r.target = a.e /\ ~r.void}
                 newest == CHOOSE r \in valid : \A q \in valid : q.created_at <= r.created_at
                 recent == valid # {} /\ newest.created_at + a.vote_time * 3600 > t
             IN  /\ (a.multiple_votes /\ recent) =>
                       /\ v.has_voted
                       /\ Len(v.wait) = 3
                       /\ v.wait[1] >= 0 /\ v.wait[2] \in 0..59 /\ v.wait[3] \in 0..59
                       /\ \E d \in 0..1 :
                             v.wait[1] * 3600 + v.wait[2] * 60 + v.wait[3]
                                = newest.created_at + a.vote_time * 3600 - (t + d)
                 /\ (a.multiple_votes /\ ~recent) => (~v.has_voted /\ v.wait = <<>>)
                 /\ ~a.multiple_votes => ((v.has_voted <=> valid # {}) /\ v.wait = <<>>) ]_vars

\* A vote_check that answers has_voted with a wait of 59 minutes, 59 seconds.
C18_Witness ==
    /\ vreq.op = "vote_check" /\ vreq.pc = "done" /\ vreq.out = "Ok"
    /\ vreq.val.has_voted /\ vreq.val.wait = <<0, 59, 59>>

\* C19: exact_vote_count(id) returns the number of non-void upvotes of the
\* entity (as its first query counts them) minus the number of non-void
\* downvotes of the entity (as its second query counts them), the votes of
\* all users counted.
C19_ExactVoteCount ==
    [][ /\ (vreq.pc = "idle" /\ vreq'.pc = "downvotes")
              => vreq'.val.count =
                    Cardinality({r \in votes : r.target = vreq'.args.e /\ ~r.void /\ r.upvote})
        /\ (vreq.pc = "downvotes" /\ vreq'.pc = "done" /\ vreq'.out = "Ok")
              => vreq'.val.count = vreq.val.count -
                    Cardinality({r \in votes : r.target = vreq.args.e /\ ~r.void /\ ~r.upvote})
      ]_vars

\* A count taken over the votes of two users, one of them voided.
C19_Witness ==
    /\ vreq.op = "exact_vote_count" /\ vreq.pc = "done" /\ vreq.out = "Ok"
    /\ \E r, q \in votes : r.author # q.author /\ ~r.void /\ ~q.void
    /\ \E r \in votes : r.void
    /\ vreq.val.count =
          Cardinality({r \in votes : r.target = vreq.args.e /\ ~r.void /\ r.upvote})
          - Cardinality({r \in votes : r.target = vreq.args.e /\ ~r.void /\ ~r.upvote})
    /\ vreq.val.count = 0 - 1

\* C20 (as claimed): fetch_votes returns the matching rows ordered by
\* created_at descending with ties broken by itag, so that the result, and
\* any limit/offset window of it, is determined by the stored rows.
C20_FetchOrderDetermined ==
    [][ (vreq.pc = "idle" /\ vreq'.op = "fetch_votes" /\ vreq'.out = "Ok")
          => LET a == vreq'.args
                 S == {r \in votes : r.author = a.u /\ r.target = a.e
                                        /\ (a.only_valid => ~r.void)}
                 n == Cardinality(S)
                 full == CHOOSE s \in [1..n -> S] :
                            \A i, j \in 1..n : i < j =>
                               \/ s[i].created_at > s[j].created_at
                               \/ /\ s[i].created_at = s[j].created_at
                                  /\ s[i].itag < s[j].itag
                 first == IF a.lo = <<>> THEN 1 ELSE a.lo[2] + 1
                 last == IF a.lo = <<>> \/ a.lo[2] + a.lo[1] > n THEN n ELSE a.lo[2] + a.lo[1]
             IN  vreq'.val.rows = SubSeq(full, first, last) ]_vars

(***************************************************************************)
(* Claims about the action executor.                                       *)
(***************************************************************************)

\* C21 (as claimed): a member-targeting action against a target whose
\* highest role is not below the bot's (the hierarchy does not name the bot
\* as the greater one) fails, and the provider's action is not called.
C21_HierarchyBlocks ==
    (dcall.method \in MemberMethods /\ dcall.in.hier \in {"target", "none"})
        => /\ dcall.out \in {"ParseError", "ActionError", "NoUser", "SelfError",
                             "ValidationError", "PermissionError", "HierarchyError",
                             "ReasonError"}
           /\ \A k \in DOMAIN dcall.trace : dcall.trace[k] # "provider"

C27_CheckOrder ==
    LET rank == [n \in {"check_reason", "check_action", "check_permissions",
                        "check_hierarchy", "check_channel_permissions", "validate"} |->
                    CASE n = "check_reason" -> 1
                      [] n = "check_action" -> 2
                      [] n = "check_permissions" -> 3
                      [] n = "check_hierarchy" -> 4
                      [] n = "check_channel_permissions" -> 5
                      [] n = "validate" -> 6]
    IN  \A a, b \in DOMAIN dcall.trace :
            (a < b /\ dcall.trace[a] \in DOMAIN rank /\ dcall.trace[b] \in DOMAIN rank)
                => rank[dcall.trace[a]] <= rank[dcall.trace[b]]

\* C30: modify_webhook, delete_webhook and execute_webhook call the
\* provider's mutating method only after the webhook has been fetched and
\* its guild_id found equal to the provider's guild id, and get_webhook
\* returns a webhook only in that case.
C30_WebhookConfined ==
    LET t == dcall.trace IN
    dcall.method \in WebhookMethods =>
        /\ (\E c \in DOMAIN t : t[c] = "provider")
              => /\ dcall.in.webhook = dcall.in.guild
                 /\ \E a, b, c \in DOMAIN t :
                       /\ a < b /\ b < c
                       /\ t[a] = "get_webhook" /\ t[b] = "guild_id" /\ t[c] = "provider"
        /\ dcall.out = "Ok"
              => /\ dcall.in.webhook = dcall.in.guild
                 /\ \E a \in DOMAIN t : t[a] = "get_webhook"

\* A webhook of another guild, refused after it was fetched.
C30_Witness ==
    /\ dcall.method = "execute_webhook" /\ dcall.out = "NotInGuild"
    /\ dcall.in.webhook = "g2" /\ dcall.in.guild = "g1"
    /\ dcall.in.prov_ok /\ dcall.in.files_ok

(****************************************************************************)
(* Claims about TarArchive.                                                 *)
(****************************************************************************)

\* C23: an archive read back with from_blob from the blob toblob made has the
\* same set of entry names as the archive that was serialized, and each entry
\* holds the same bytes.
C23_TarRoundTrip ==
    tarBack.set =>
        /\ DOMAIN tarBack.entries = DOMAIN tarBack.of
        /\ \A n \in DOMAIN tarBack.of \cap DOMAIN tarBack.entries :
               tarBack.entries[n] = tarBack.of[n]

(***************************************************************************)
(* Claims about the proxied global table.                                  *)
(***************************************************************************)

\* C28: a read through the proxy of a key never written through it returns
\* the built-in global's value; a write leaves the built-in globals as they
\* were, and a read of a written key returns the value last written.
C28_ProxyFrame ==
    /\ lua_globals = builtin_globals
    /\ gread.key \in Keys =>
          IF gread.written = "unwritten"
          THEN gread.value = builtin_globals[gread.key]
          ELSE gread.value = gread.written

(***************************************************************************)
(* Claims about concurrent give_votes calls.                               *)
(***************************************************************************)

\* C29: whatever the interleaving of give_votes calls, successful or failed,
\* and with no vote voided, approximate_votes of every entity (0 while it has
\* no row) is the number of its non-void upvote rows minus the number of its
\* non-void downvote rows: no call's update is lost.
C29_ApproxIsExact ==
    \A e \in Entities :
        (IF approx[e].present THEN approx[e].n ELSE 0)
            = count_votes(votes, e, 1, TRUE) - count_votes(votes, e, 1, FALSE)

\* Two calls on the same entity that were open at the same time, an upvote and
\* a downvote of different sizes, have both committed; a third call was made.
C29_Witness ==
    /\ begun = 3
    /\ \A t \in Txs : tx[t].pc = "done" /\ tx[t].out = "Ok" /\ tx[t].conc
    /\ tx[1].e = tx[2].e /\ tx[1].upvote /\ ~tx[2].upvote /\ tx[1].per_user # tx[2].per_user
    /\ approx[tx[1].e].present /\ approx[tx[1].e].n # 0

====
